---- MODULE Spec2Model ----
(***************************************************************************)
(* Model of the client-side sequence-ingestion and results pipeline:       *)
(*   - the sequence utilities of src/src/utils/index.js                    *)
(*     (validateDNASequence, cleanDNASequence, createFastaFromSequence,    *)
(*      parseFastaContent),                                                *)
(*   - validateFile, the storage helper, ApiService and ModelsPage of the  *)
(*     same file,                                                          *)
(*   - ResultsPage (loadResults, downloadResults, exportCSV) and           *)
(*     UploadPage of src/pages/Results.js.                                 *)
(*                                                                         *)
(* A JavaScript string is modelled as a sequence of one-character strings, *)
(* so that splitting, trimming, joining and formatting are computed        *)
(* character by character as the code computes them.                       *)
(***************************************************************************)
EXTENDS Integers, Sequences, FiniteSets, TLC

VARIABLES
    fn,             \* utilities: name of the function applied last ("none" before any call)
    sequence,       \* utilities: the argument (sequence / content; the file of validateFile)
    id,             \* utilities: the id argument of createFastaFromSequence (NoArg = omitted)
    out,            \* utilities: the value returned by the call
    predictionResults, \* localStorage['predictionResults'] (Absent or the stored text)
    results,        \* ResultsPage state `results`
    loading,        \* ResultsPage state `loading`
    downloads,      \* artifacts handed to the browser's download (link.click())
    today,          \* calendar day read by new Date()
    storedUploadedFile, \* localStorage['uploadedFile'] (Absent or the stored text)
    storedFileContent,  \* localStorage['fileContent'] (Absent or the stored text)
    uploadPageFile, \* UploadPage state `uploadedFile`
    rawSequence,    \* UploadPage state `rawSequence` (the text area)
    readers,        \* UploadPage: files being read by a FileReader whose onload has not run
    uploadNotification, \* UploadPage state `notification`
    uploadTimers,   \* UploadPage: notification timers that have not fired yet
    mounted,        \* ModelsPage: the mount effect has run
    selectedModels, \* ModelsPage state `selectedModels`
    isProcessing,   \* ModelsPage state `isProcessing`
    notification,   \* ModelsPage state `notification`
    backendStatus,  \* ModelsPage state `backendStatus`
    uploadedFile,   \* ModelsPage state `uploadedFile`
    fileContent,    \* ModelsPage state `fileContent`
    timers,         \* ModelsPage: notification timers that have not fired yet
    requests,       \* the requests ModelsPage handed to fetch, in order
    pending,        \* POST /predict requests of ModelsPage awaiting their response
    healthPending,  \* GET /health requests of ModelsPage awaiting their response
    outcomes,       \* what the service did with each completed predict request of ModelsPage
    uncaught,       \* the exceptions that escaped a handler so far
    hash,           \* window.location.hash
    navTimers,      \* navigations scheduled with setTimeout that have not fired yet
    api             \* ApiService / checkBackendStatus: the calls made and how each ended

codecVars == <<fn, sequence, id, out>>
pageVars == <<predictionResults, results, loading, downloads, today>>
storeVars == <<storedUploadedFile, storedFileContent>>
uploadVars == <<uploadPageFile, rawSequence, readers, uploadNotification, uploadTimers>>
modelsVars == <<mounted, selectedModels, isProcessing, notification, backendStatus,
                uploadedFile, fileContent, timers>>
netVars == <<requests, pending, healthPending, outcomes, uncaught, hash, navTimers, api>>
pipelineVars == <<storeVars, uploadVars, modelsVars, netVars>>

vars == <<codecVars, pageVars, pipelineVars>>

(***************************************************************************)
(* Bounds                                                                  *)
(***************************************************************************)
MaxLen == 4         \* longest free-form text argument
MaxLines == 4       \* most lines of a generated FASTA-like document
MaxRows == 2        \* most entries of detailed_results
MaxDownloads == 2   \* most downloads recorded in one run
MaxDay == 2         \* calendar days the clock can show

(***************************************************************************)
(* Values that stand for JavaScript's undefined / null / missing key       *)
(***************************************************************************)
NoArg == "NoArg"                     \* an omitted argument
Null == "null"                       \* no value returned yet
NoResults == [null |-> TRUE]         \* useState(null)
Absent == [item |-> "absent"]        \* localStorage.getItem returns null
Item(text) == [item |-> "text", text |-> text]  \* localStorage.getItem returns the text
Corrupt == Item(<<"u","n","d","e","f","i","n","e","d">>)         \* a stored text that is not JSON: String(undefined)
NoFile == [null |-> TRUE]            \* useState(null) of an uploaded file
NoContent == [null |-> TRUE]         \* useState(null) of the file content
NoNotification == [type |-> "none", message |-> "none"]  \* useState(null) of a notification
Undefined == 0 - 1                   \* a numeric property that is missing

(***************************************************************************)
(* Characters and strings                                                  *)
(***************************************************************************)
LowerLetters == <<"a","b","c","d","e","f","g","h","i","j","k","l","m",
                  "n","o","p","q","r","s","t","u","v","w","x","y","z">>
UpperLetters == <<"A","B","C","D","E","F","G","H","I","J","K","L","M",
                  "N","O","P","Q","R","S","T","U","V","W","X","Y","Z">>

\* String.prototype.toUpperCase on one character
ToUpperChar(c) ==
    IF \E i \in 1..26 : LowerLetters[i] = c
    THEN UpperLetters[CHOOSE i \in 1..26 : LowerLetters[i] = c]
    ELSE c

\* the class \s of a JavaScript regular expression (it contains \n and \r);
\* String.prototype.trim strips the same characters
IsSpace(c) == c \in {" ", "\t", "\n", "\r", "\f"}

\* the class [ATGCN] under the flag i
IsBaseIgnoreCase(c) == ToUpperChar(c) \in {"A", "T", "G", "C", "N"}

\* the class [ATGCN] without the flag i
IsBaseExact(c) == c \in {"A", "T", "G", "C", "N"}

ToUpperCase(s) == [i \in 1..Len(s) |-> ToUpperChar(s[i])]

RECURSIVE TrimStart(_)
TrimStart(s) ==
    IF s # <<>> /\ IsSpace(Head(s)) THEN TrimStart(Tail(s)) ELSE s

RECURSIVE TrimEnd(_)
TrimEnd(s) ==
    IF s # <<>> /\ IsSpace(s[Len(s)]) THEN TrimEnd(SubSeq(s, 1, Len(s) - 1)) ELSE s

\* String.prototype.trim
Trim(s) == TrimEnd(TrimStart(s))

\* String.prototype.split(sep) for a one-character separator:
\* the pieces between the separators, empty pieces included
Split(s, sep) ==
    LET P == {i \in 1..Len(s) : s[i] = sep}
        n == Cardinality(P)
        \* position of the k-th separator; 0 before the text, Len(s) + 1 after it
        At(k) == IF k = 0 THEN 0
                 ELSE IF k = n + 1 THEN Len(s) + 1
                 ELSE CHOOSE i \in P : Cardinality({j \in P : j <= i}) = k
    IN [k \in 1..(n + 1) |-> SubSeq(s, At(k - 1) + 1, At(k) - 1)]

\* Array.prototype.join(sep) on an array of strings
RECURSIVE Join(_, _)
Join(parts, sep) ==
    IF parts = <<>> THEN <<>>
    ELSE IF Len(parts) = 1 THEN parts[1]
    ELSE parts[1] \o sep \o Join(Tail(parts), sep)

(***************************************************************************)
(* src/src/utils/index.js: sequence utilities                              *)
(***************************************************************************)

\* /^[ATGCN\s\n\r]+$/.test(sequence): the flag i forgotten
validateDNASequenceCaseSensitive(s) ==
    /\ Len(s) >= 1
    /\ \A i \in 1..Len(s) : IsBaseExact(s[i]) \/ IsSpace(s[i])

\* /^[ATGCN\s\n\r]+$/i.test(sequence)
validateDNASequence(s) ==
    /\ Len(s) >= 1
    /\ \A i \in 1..Len(s) : IsBaseIgnoreCase(s[i]) \/ IsSpace(s[i])

\* sequence.replace(/[\s\n\r]/g, ''): every match removed, the rest in order
RECURSIVE RemoveWhitespace(_)
RemoveWhitespace(s) ==
    IF s = <<>> THEN <<>>
    ELSE IF IsSpace(Head(s)) THEN RemoveWhitespace(Tail(s))
    ELSE <<Head(s)>> \o RemoveWhitespace(Tail(s))

\* sequence.replace(/ /g, ''): only spaces removed
RECURSIVE RemoveSpacesOnly(_)
RemoveSpacesOnly(s) ==
    IF s = <<>> THEN <<>>
    ELSE IF Head(s) = " " THEN RemoveSpacesOnly(Tail(s))
    ELSE <<Head(s)>> \o RemoveSpacesOnly(Tail(s))

cleanDNASequenceSpacesOnly(s) == ToUpperCase(RemoveSpacesOnly(s))

cleanDNASequence(s) == ToUpperCase(RemoveWhitespace(s))

\* the default of the parameter id
DefaultId == <<"U","s","e","r","_","S","e","q","u","e","n","c","e">>

\* `>${id}\n${sequence}`: the argument used as it is, not cleaned
createFastaFromSequenceUncleaned(s, i) ==
    <<">">> \o (IF i = NoArg THEN DefaultId ELSE i) \o <<"\n">> \o s

createFastaFromSequence(s, i) ==
    LET cleanSeq == cleanDNASequence(s)
        theId == IF i = NoArg THEN DefaultId ELSE i
    IN <<">">> \o theId \o <<"\n">> \o cleanSeq

\* a string is truthy iff it is not empty
Truthy(s) == s # <<>>

StartsWithGt(line) == line # <<>> /\ Head(line) = ">"

\* state of the loop of parseFastaContent before the first line
ParseStart == [sequences |-> <<>>, currentSequence |-> [id |-> <<>>, sequence |-> <<>>]]

\* the loop body with the guard of the push reduced to `currentSequence.id`
ParseLineNoSequenceGuard(st, rawLine) ==
    LET line == Trim(rawLine) IN
    IF StartsWithGt(line)
    THEN [sequences |-> IF Truthy(st.currentSequence.id)
                        THEN Append(st.sequences, st.currentSequence)
                        ELSE st.sequences,
          currentSequence |-> [id |-> Tail(line), sequence |-> <<>>]]
    ELSE IF Truthy(line)
    THEN [st EXCEPT !.currentSequence.sequence = @ \o line]
    ELSE st

\* the loop body with the line not trimmed
ParseLineUntrimmed(st, rawLine) ==
    LET line == rawLine IN
    IF StartsWithGt(line)
    THEN [sequences |-> IF Truthy(st.currentSequence.id) /\ Truthy(st.currentSequence.sequence)
                        THEN Append(st.sequences, st.currentSequence)
                        ELSE st.sequences,
          currentSequence |-> [id |-> Tail(line), sequence |-> <<>>]]
    ELSE IF Truthy(line)
    THEN [st EXCEPT !.currentSequence.sequence = @ \o line]
    ELSE st

\* one iteration of `for (let line of lines)`
ParseLine(st, rawLine) ==
    LET line == Trim(rawLine) IN
    IF StartsWithGt(line)
    THEN [sequences |-> IF Truthy(st.currentSequence.id) /\ Truthy(st.currentSequence.sequence)
                        THEN Append(st.sequences, st.currentSequence)
                        ELSE st.sequences,
          currentSequence |-> [id |-> Tail(line), sequence |-> <<>>]]
    ELSE IF Truthy(line)
    THEN [st EXCEPT !.currentSequence.sequence = @ \o line]
    ELSE st

RECURSIVE ParseLoop(_, _)
ParseLoop(st, lines) ==
    IF lines = <<>> THEN st ELSE ParseLoop(ParseLine(st, Head(lines)), Tail(lines))

\* the end of parseFastaContent without the push of the last record
ParseFlushMissing(st) == st.sequences

\* the push after the loop, and the return
ParseFlush(st) ==
    IF Truthy(st.currentSequence.id) /\ Truthy(st.currentSequence.sequence)
    THEN Append(st.sequences, st.currentSequence)
    ELSE st.sequences

parseFastaContent(content) ==
    ParseFlush(ParseLoop(ParseStart, Split(content, "\n")))

(***************************************************************************)
(* src/pages/Results.js: ResultsPage                                       *)
(***************************************************************************)
\* A probability p in [0,1] is held as the integer p * ProbUnit.
ProbUnit == 100000

Digits == <<"0","1","2","3","4","5","6","7","8","9">>

DigitChar(d) == Digits[d + 1]

\* String(n) for an integer n >= 0
RECURSIVE NumberToString(_)
NumberToString(n) ==
    IF n < 10 THEN <<DigitChar(n)>> ELSE NumberToString(n \div 10) \o <<DigitChar(n % 10)>>

\* (p * 100).toFixed(2): p * 100 rounded to hundredths, always two decimals
PercentToFixed2(p) ==
    LET h == (p + 5) \div 10       \* hundredths of a percent, rounded
    IN NumberToString(h \div 100) \o <<".">> \o <<DigitChar((h % 100) \div 10), DigitChar(h % 10)>>

RECURSIVE StripTrailingZeros(_)
StripTrailingZeros(s) ==
    IF s # <<>> /\ s[Len(s)] = "0" THEN StripTrailingZeros(SubSeq(s, 1, Len(s) - 1)) ELSE s

\* the five decimals of p, leading zeros kept
FractionDigits(f) ==
    <<DigitChar(f \div 10000), DigitChar((f \div 1000) % 10), DigitChar((f \div 100) % 10),
      DigitChar((f \div 10) % 10), DigitChar(f % 10)>>

\* String(p) for a probability: the shortest decimal, as JSON.stringify writes it
ProbabilityToString(p) ==
    IF p % ProbUnit = 0 THEN NumberToString(p \div ProbUnit)
    ELSE NumberToString(p \div ProbUnit) \o <<".">> \o StripTrailingZeros(FractionDigits(p % ProbUnit))

NA == <<"N","/","A">>

\* result.raw_probabilities?.viral (undefined when either level is missing)
RawViral(result) ==
    IF "raw_probabilities" \in DOMAIN result /\ "viral" \in DOMAIN result.raw_probabilities
    THEN result.raw_probabilities.viral ELSE Undefined

\* result.raw_probabilities?.non_viral
RawNonViral(result) ==
    IF "raw_probabilities" \in DOMAIN result /\ "non_viral" \in DOMAIN result.raw_probabilities
    THEN result.raw_probabilities.non_viral ELSE Undefined

\* `x ? (x * 100).toFixed(2) : 'N/A'`: undefined and 0 are both falsy
ProbabilityColumn(x) ==
    IF x # Undefined /\ x # 0 THEN PercentToFixed2(x) ELSE NA

\* csvHeaders
csvHeaders ==
    << <<"S","e","q","u","e","n","c","e","_","I","D">>, <<"P","r","e","d","i","c","t","i","o","n">>, <<"C","o","n","f","i","d","e","n","c","e">>, <<"L","e","n","g","t","h">>,
       <<"V","i","r","a","l","_","P","r","o","b","a","b","i","l","i","t","y">>, <<"N","o","n","V","i","r","a","l","_","P","r","o","b","a","b","i","l","i","t","y">> >>

\* the array built for one entry by the callback of detailed_results.map
CsvRow(result) ==
    << result.sequence_id,
       result.prediction,
       PercentToFixed2(result.probability),
       NumberToString(result.sequence_length),
       ProbabilityColumn(RawViral(result)),
       ProbabilityColumn(RawNonViral(result)) >>

\* the rows in reverse order of detailed_results
csvRowsReversed(r) ==
    LET n == Len(r.detailed_results) IN
    [i \in 1..n |-> CsvRow(r.detailed_results[n + 1 - i])]

\* csvRows: detailed_results.map keeps the order of the entries
csvRows(r) ==
    [i \in 1..Len(r.detailed_results) |-> CsvRow(r.detailed_results[i])]

JoinRow(row) == Join(row, <<",">>)

\* the text with the day of the export written in front of it
csvContentStamped(r) ==
    LET rows == <<csvHeaders>> \o csvRows(r) IN
    <<DigitChar(today)>> \o <<"\n">> \o Join([i \in 1..Len(rows) |-> JoinRow(rows[i])], <<"\n">>)

\* csvContent: [csvHeaders, ...csvRows].map(row => row.join(',')).join('\n')
csvContent(r) ==
    LET rows == <<csvHeaders>> \o csvRows(r) IN
    Join([i \in 1..Len(rows) |-> JoinRow(rows[i])], <<"\n">>)

(***************************************************************************)
(* JSON.stringify(value, null, 2)                                          *)
(***************************************************************************)
JNum(chars) == [t |-> "num", v |-> chars]
JStr(chars) == [t |-> "str", v |-> chars]
JArr(items) == [t |-> "arr", v |-> items]
JObj(members) == [t |-> "obj", v |-> members]
Member(key, value) == [k |-> key, v |-> value]

Spaces(n) == [i \in 1..n |-> " "]

Quoted(chars) == <<"\"">> \o chars \o <<"\"">>

RECURSIVE Pretty(_, _)
RECURSIVE PrettyItems(_, _)
RECURSIVE PrettyMembers(_, _)

\* the items of an array, one per line at the given indentation
PrettyItems(items, ind) ==
    IF Len(items) = 1 THEN Spaces(ind) \o Pretty(items[1], ind)
    ELSE Spaces(ind) \o Pretty(items[1], ind) \o <<",", "\n">> \o PrettyItems(Tail(items), ind)

\* the members of an object, one per line at the given indentation
PrettyMembers(members, ind) ==
    LET first == Spaces(ind) \o Quoted(members[1].k) \o <<":", " ">> \o Pretty(members[1].v, ind) IN
    IF Len(members) = 1 THEN first
    ELSE first \o <<",", "\n">> \o PrettyMembers(Tail(members), ind)

Pretty(value, ind) ==
    CASE value.t = "num" -> value.v
      [] value.t = "str" -> Quoted(value.v)
      [] value.t = "arr" ->
            IF value.v = <<>> THEN <<"[", "]">>
            ELSE <<"[", "\n">> \o PrettyItems(value.v, ind + 2) \o <<"\n">> \o Spaces(ind) \o <<"]">>
      [] value.t = "obj" ->
            IF value.v = <<>> THEN <<"{", "}">>
            ELSE <<"{", "\n">> \o PrettyMembers(value.v, ind + 2) \o <<"\n">> \o Spaces(ind) \o <<"}">>

\* the members of raw_probabilities that are present, in key order
RawProbabilitiesTree(raw) ==
    JObj( (IF "viral" \in DOMAIN raw
           THEN <<Member(<<"v","i","r","a","l">>, JNum(ProbabilityToString(raw.viral)))>> ELSE <<>>)
       \o (IF "non_viral" \in DOMAIN raw
           THEN <<Member(<<"n","o","n","_","v","i","r","a","l">>, JNum(ProbabilityToString(raw.non_viral)))>> ELSE <<>>) )

\* one entry of detailed_results as a JSON object
DetailedResultTree(result) ==
    JObj( << Member(<<"s","e","q","u","e","n","c","e","_","i","d">>, JStr(result.sequence_id)),
             Member(<<"p","r","e","d","i","c","t","i","o","n">>, JStr(result.prediction)),
             Member(<<"p","r","o","b","a","b","i","l","i","t","y">>, JNum(ProbabilityToString(result.probability))),
             Member(<<"s","e","q","u","e","n","c","e","_","l","e","n","g","t","h">>, JNum(NumberToString(result.sequence_length))) >>
       \o (IF "raw_probabilities" \in DOMAIN result
           THEN <<Member(<<"r","a","w","_","p","r","o","b","a","b","i","l","i","t","i","e","s">>, RawProbabilitiesTree(result.raw_probabilities))>>
           ELSE <<>>) )

\* the results object as a JSON object, keys in the order of the stored object
ResultsTree(r) ==
    JObj( << Member(<<"s","u","m","m","a","r","y">>,
                    JObj(<<Member(<<"t","o","t","a","l","_","s","e","q","u","e","n","c","e","s">>, JNum(NumberToString(r.summary.total_sequences)))>>)) >>
       \o (IF "detailed_results" \in DOMAIN r
           THEN <<Member(<<"d","e","t","a","i","l","e","d","_","r","e","s","u","l","t","s">>,
                         JArr([i \in 1..Len(r.detailed_results) |-> DetailedResultTree(r.detailed_results[i])]))>>
           ELSE <<>>) )

\* dataStr = JSON.stringify(results, null, 2)
dataStr(r) == Pretty(ResultsTree(r), 0)

(***************************************************************************)
(* JSON.stringify(value) and JSON.parse(text)                              *)
(***************************************************************************)
JNull == [t |-> "null", v |-> <<>>]

RECURSIVE Compact(_)
RECURSIVE CompactItems(_)
RECURSIVE CompactMembers(_)

CompactItems(items) ==
    IF Len(items) = 1 THEN Compact(items[1])
    ELSE Compact(items[1]) \o <<",">> \o CompactItems(Tail(items))

CompactMembers(members) ==
    LET first == Quoted(members[1].k) \o <<":">> \o Compact(members[1].v) IN
    IF Len(members) = 1 THEN first
    ELSE first \o <<",">> \o CompactMembers(Tail(members))

\* JSON.stringify(value): no white space between the tokens
Compact(value) ==
    CASE value.t = "num" -> value.v
      [] value.t = "str" -> Quoted(value.v)
      [] value.t = "null" -> <<"n","u","l","l">>
      [] value.t = "arr" ->
            IF value.v = <<>> THEN <<"[", "]">>
            ELSE <<"[">> \o CompactItems(value.v) \o <<"]">>
      [] value.t = "obj" ->
            IF value.v = <<>> THEN <<"{", "}">>
            ELSE <<"{">> \o CompactMembers(value.v) \o <<"}">>

\* the result of a parse that throws SyntaxError
ParseFailed == [ok |-> FALSE]

Parsed(value, next) == [ok |-> TRUE, v |-> value, next |-> next]

IsDigit(c) == \E d \in 1..10 : Digits[d] = c

\* the first position from i on that holds no white space (Len(s) + 1 at the end)
RECURSIVE SkipSpace(_, _)
SkipSpace(s, i) ==
    IF i <= Len(s) /\ IsSpace(s[i]) THEN SkipSpace(s, i + 1) ELSE i

\* the first position from i on that is not part of a number
RECURSIVE NumberEnd(_, _)
NumberEnd(s, i) ==
    IF i <= Len(s) /\ (IsDigit(s[i]) \/ s[i] = ".") THEN NumberEnd(s, i + 1) ELSE i

\* the position of the first double quote from i on (0 when there is none)
RECURSIVE QuoteFrom(_, _)
QuoteFrom(s, i) ==
    IF i > Len(s) THEN 0
    ELSE IF s[i] = "\"" THEN i
    ELSE QuoteFrom(s, i + 1)

RECURSIVE ParseValue(_, _)
RECURSIVE ParseItems(_, _, _)
RECURSIVE ParseMembers(_, _, _)

\* the items of an array from position i0 on, up to the closing bracket
ParseItems(s, i0, acc) ==
    LET r == ParseValue(s, i0) IN
    IF ~r.ok THEN ParseFailed
    ELSE LET j == SkipSpace(s, r.next) IN
         IF j > Len(s) THEN ParseFailed
         ELSE IF s[j] = "," THEN ParseItems(s, j + 1, Append(acc, r.v))
         ELSE IF s[j] = "]" THEN Parsed(JArr(Append(acc, r.v)), j + 1)
         ELSE ParseFailed

\* the members of an object from position i0 on, up to the closing brace
ParseMembers(s, i0, acc) ==
    LET key == ParseValue(s, i0) IN
    IF ~key.ok \/ key.v.t # "str" THEN ParseFailed
    ELSE LET c == SkipSpace(s, key.next) IN
         IF c > Len(s) \/ s[c] # ":" THEN ParseFailed
         ELSE LET r == ParseValue(s, c + 1) IN
              IF ~r.ok THEN ParseFailed
              ELSE LET j == SkipSpace(s, r.next)
                       members == Append(acc, Member(key.v.v, r.v))
                   IN
                   IF j > Len(s) THEN ParseFailed
                   ELSE IF s[j] = "," THEN ParseMembers(s, j + 1, members)
                   ELSE IF s[j] = "}" THEN Parsed(JObj(members), j + 1)
                   ELSE ParseFailed

\* one JSON value from position i0 on (strings without escapes, numbers without sign)
ParseValue(s, i0) ==
    LET i == SkipSpace(s, i0) IN
    IF i > Len(s) THEN ParseFailed
    ELSE IF s[i] = "\"" THEN
        LET e == QuoteFrom(s, i + 1) IN
        IF e = 0 THEN ParseFailed ELSE Parsed(JStr(SubSeq(s, i + 1, e - 1)), e + 1)
    ELSE IF IsDigit(s[i]) THEN
        LET e == NumberEnd(s, i) IN Parsed(JNum(SubSeq(s, i, e - 1)), e)
    ELSE IF s[i] = "[" THEN
        LET j == SkipSpace(s, i + 1) IN
        IF j <= Len(s) /\ s[j] = "]" THEN Parsed(JArr(<<>>), j + 1) ELSE ParseItems(s, i + 1, <<>>)
    ELSE IF s[i] = "{" THEN
        LET j == SkipSpace(s, i + 1) IN
        IF j <= Len(s) /\ s[j] = "}" THEN Parsed(JObj(<<>>), j + 1) ELSE ParseMembers(s, i + 1, <<>>)
    ELSE IF SubSeq(s, i, i + 3) = <<"n","u","l","l">> THEN Parsed(JNull, i + 4)
    ELSE ParseFailed

\* JSON.parse(text): one value and nothing after it, or a SyntaxError
JsonParse(text) ==
    LET r == ParseValue(text, 1) IN
    IF r.ok /\ SkipSpace(text, r.next) = Len(text) + 1 THEN r ELSE ParseFailed

DigitValue(c) == (CHOOSE d \in 1..10 : Digits[d] = c) - 1

\* the number written by a run of digits
RECURSIVE StringToNumber(_)
StringToNumber(s) ==
    IF s = <<>> THEN 0
    ELSE 10 * StringToNumber(SubSeq(s, 1, Len(s) - 1)) + DigitValue(s[Len(s)])

\* the probability written by a decimal, in units of 1 / ProbUnit
StringToProbability(s) ==
    LET parts == Split(s, ".")
        frac == IF Len(parts) >= 2 THEN parts[2] ELSE <<>>
        padded == [k \in 1..5 |-> IF k <= Len(frac) THEN frac[k] ELSE "0"]
    IN StringToNumber(parts[1]) * ProbUnit + StringToNumber(padded)

\* obj.hasOwnProperty(key) and obj[key] on a parsed object
HasKey(obj, key) == \E m \in 1..Len(obj.v) : obj.v[m].k = key
GetKey(obj, key) == obj.v[CHOOSE m \in 1..Len(obj.v) : obj.v[m].k = key].v

\* the raw_probabilities object a parsed member stands for
RawProbabilitiesOfTree(obj) ==
    LET hasV == HasKey(obj, <<"v","i","r","a","l">>)
        hasN == HasKey(obj, <<"n","o","n","_","v","i","r","a","l">>)
        v == StringToProbability(GetKey(obj, <<"v","i","r","a","l">>).v)
        n == StringToProbability(GetKey(obj, <<"n","o","n","_","v","i","r","a","l">>).v)
    IN IF hasV /\ hasN THEN [viral |-> v, non_viral |-> n]
       ELSE IF hasV THEN [viral |-> v]
       ELSE IF hasN THEN [non_viral |-> n]
       ELSE [k \in {} |-> 0]

\* the entry of detailed_results a parsed object stands for
DetailedResultOfTree(obj) ==
    LET sid == GetKey(obj, <<"s","e","q","u","e","n","c","e","_","i","d">>).v
        pred == GetKey(obj, <<"p","r","e","d","i","c","t","i","o","n">>).v
        prob == StringToProbability(GetKey(obj, <<"p","r","o","b","a","b","i","l","i","t","y">>).v)
        len == StringToNumber(GetKey(obj, <<"s","e","q","u","e","n","c","e","_","l","e","n","g","t","h">>).v)
    IN IF HasKey(obj, <<"r","a","w","_","p","r","o","b","a","b","i","l","i","t","i","e","s">>)
       THEN [sequence_id |-> sid, prediction |-> pred, probability |-> prob, sequence_length |-> len,
             raw_probabilities |-> RawProbabilitiesOfTree(GetKey(obj, <<"r","a","w","_","p","r","o","b","a","b","i","l","i","t","i","e","s">>))]
       ELSE [sequence_id |-> sid, prediction |-> pred, probability |-> prob, sequence_length |-> len]

\* the results object a parsed value stands for (null stays null)
ResultsOfTree(tree) ==
    IF tree.t = "null" THEN NoResults
    ELSE LET summary == [total_sequences |->
                            StringToNumber(GetKey(GetKey(tree, <<"s","u","m","m","a","r","y">>), <<"t","o","t","a","l","_","s","e","q","u","e","n","c","e","s">>).v)]
         IN IF HasKey(tree, <<"d","e","t","a","i","l","e","d","_","r","e","s","u","l","t","s">>)
            THEN LET items == GetKey(tree, <<"d","e","t","a","i","l","e","d","_","r","e","s","u","l","t","s">>).v IN
                 [summary |-> summary,
                  detailed_results |-> [i \in 1..Len(items) |-> DetailedResultOfTree(items[i])]]
            ELSE [summary |-> summary]

\* JSON.stringify(results)
JsonStringifyResults(r) == Compact(ResultsTree(r))

(***************************************************************************)
(* ModelsPage: the models offered                                          *)
(***************************************************************************)
RandomForest == <<"r","a","n","d","o","m","-","f","o","r","e","s","t">>
KNearestNeighbors == <<"k","-","n","e","a","r","e","s","t","-","n","e","i","g","h","b","o","r","s">>
XGBoost == <<"x","g","b","o","o","s","t">>
DeepVirFinder == <<"d","e","e","p","v","i","r","f","i","n","d","e","r">>

\* const models = [...]
models ==
    << [id |-> RandomForest, trained |-> TRUE],
       [id |-> KNearestNeighbors, trained |-> FALSE],
       [id |-> XGBoost, trained |-> FALSE],
       [id |-> DeepVirFinder, trained |-> FALSE] >>

(***************************************************************************)
(* Text arguments the utilities are applied to                             *)
(***************************************************************************)
FreeChars == {"A", "g", "n", " ", "\t", "\n", "\r", "X"}

FreeTexts == UNION {[1..n -> FreeChars] : n \in 0..MaxLen}

\* lines a FASTA-like document is put together from
DocLineKinds ==
    { <<>>,                             \* blank line
      <<" ", "\r">>,                    \* whitespace only
      <<">", "X">>,                     \* header
      <<" ", ">", " ", "Y", "\r">>,     \* header with surrounding whitespace
      <<">">>,                          \* header with no text
      <<"A", "C">>,                     \* sequence line
      <<" ", "g", "t", "\r">> }         \* sequence line with surrounding whitespace

DocTexts == {Join(ls, <<"\n">>) : ls \in UNION {[1..n -> DocLineKinds] : n \in 1..MaxLines}}

\* "atcg\natcg"
ScenarioText == <<"a","t","c","g","\n","a","t","c","g">>

\* ">User_Sequence\nATCGATCG"
ScenarioFasta ==
    <<">","U","s","e","r","_","S","e","q","u","e","n","c","e","\n","A","T","C","G","A","T","C","G">>

Texts == FreeTexts \cup DocTexts \cup {ScenarioText}

IdX == <<"X">>

Ids == {NoArg, IdX}

(***************************************************************************)
(* ResultsPage before anything is stored or loaded                         *)
(***************************************************************************)
PipelineIdle ==
    /\ storedUploadedFile = Absent
    /\ storedFileContent = Absent
    /\ uploadPageFile = NoFile
    /\ rawSequence = <<>>
    /\ readers = <<>>
    /\ uploadNotification = NoNotification
    /\ uploadTimers = 0
    /\ mounted = FALSE
    /\ selectedModels = {RandomForest}
    /\ isProcessing = FALSE
    /\ notification = NoNotification
    /\ backendStatus = "checking"
    /\ uploadedFile = NoFile
    /\ fileContent = NoContent
    /\ timers = 0
    /\ requests = <<>>
    /\ pending = 0
    /\ healthPending = 0
    /\ outcomes = <<>>
    /\ uncaught = {}
    /\ hash = "upload"
    /\ navTimers = 0
    /\ api = <<>>

\* ResultsPage before its mount effect, with nothing stored
PageIdle ==
    /\ predictionResults = Absent
    /\ results = NoResults
    /\ loading = TRUE
    /\ downloads = <<>>
    /\ today = 1

(***************************************************************************)
(* Specification of the sequence utilities: a text is chosen, then the     *)
(* functions are applied to it                                             *)
(***************************************************************************)
InitCodec ==
    /\ fn = "none"
    /\ sequence \in Texts
    /\ id = NoArg
    /\ out = Null
    /\ PageIdle
    /\ PipelineIdle

CallValidateDNASequence ==
    /\ fn' = "validateDNASequence"
    /\ out' = validateDNASequence(sequence)
    /\ id' = NoArg
    /\ UNCHANGED <<sequence, pageVars, pipelineVars>>

CallCleanDNASequence ==
    /\ fn' = "cleanDNASequence"
    /\ out' = cleanDNASequence(sequence)
    /\ id' = NoArg
    /\ UNCHANGED <<sequence, pageVars, pipelineVars>>

CallCreateFastaFromSequence ==
    \E i \in Ids :
        /\ fn' = "createFastaFromSequence"
        /\ out' = createFastaFromSequence(sequence, i)
        /\ id' = i
        /\ UNCHANGED <<sequence, pageVars, pipelineVars>>

CallParseFastaContent ==
    /\ fn' = "parseFastaContent"
    /\ out' = parseFastaContent(sequence)
    /\ id' = NoArg
    /\ UNCHANGED <<sequence, pageVars, pipelineVars>>

\* parseFastaContent(createFastaFromSequence(cleanDNASequence(s), "X"))
CallRoundTrip ==
    /\ fn' = "roundTrip"
    /\ out' = parseFastaContent(createFastaFromSequence(cleanDNASequence(sequence), IdX))
    /\ id' = IdX
    /\ UNCHANGED <<sequence, pageVars, pipelineVars>>

NextCodec ==
    \/ CallValidateDNASequence
    \/ CallCleanDNASequence
    \/ CallCreateFastaFromSequence
    \/ CallParseFastaContent
    \/ CallRoundTrip

SpecCodec == InitCodec /\ [][NextCodec]_vars

(***************************************************************************)
(* Results a prediction run can have stored                                *)
(***************************************************************************)
\* entries of detailed_results without raw_probabilities
PlainEntries ==
    { [sequence_id |-> <<"s","1">>, prediction |-> <<"V","i","r","a","l">>,
       probability |-> 87346, sequence_length |-> 120],
      [sequence_id |-> <<"s",",","2">>, prediction |-> <<"N","o","n","-","V","i","r","a","l">>,
       probability |-> 50000, sequence_length |-> 9] }

\* values of raw_probabilities: both keys, a probability of exactly 0, one key missing
RawValues ==
    { [viral |-> 87346, non_viral |-> 12654],
      [viral |-> 0, non_viral |-> ProbUnit],
      [viral |-> ProbUnit, non_viral |-> 0],
      [viral |-> 87346] }

Entries ==
    PlainEntries \cup
    { [sequence_id |-> e.sequence_id, prediction |-> e.prediction,
       probability |-> e.probability, sequence_length |-> e.sequence_length,
       raw_probabilities |-> raw] : e \in PlainEntries, raw \in RawValues }

EntryLists == UNION {[1..n -> Entries] : n \in 0..MaxRows}

ResultValues ==
    { [summary |-> [total_sequences |-> Len(d)], detailed_results |-> d] : d \in EntryLists }
    \cup { [summary |-> [total_sequences |-> 0]] }

\* what localStorage can hold under 'predictionResults': nothing, the empty text,
\* a text that is not JSON, the text of null, or JSON.stringify of a results object
StoredValues ==
    {Absent, Item(<<>>), Corrupt, Item(<<"n","u","l","l">>)}
        \cup {Item(JsonStringifyResults(r)) : r \in ResultValues}

\* the utilities before any call
CodecIdle ==
    /\ fn = "none"
    /\ sequence = <<>>
    /\ id = NoArg
    /\ out = Null

InitPage ==
    /\ CodecIdle
    /\ PipelineIdle
    /\ predictionResults \in StoredValues
    /\ results = NoResults
    /\ loading = TRUE
    /\ downloads = <<>>
    /\ today = 1

\* loadResults() that reads the results only when an upload is stored
loadResultsUploadRequired ==
    /\ loading = TRUE
    /\ LET storedResults == predictionResults IN
       IF storedResults = Absent \/ ~Truthy(storedResults.text) \/ storedUploadedFile = Absent
       THEN results' = results
       ELSE LET parsed == JsonParse(storedResults.text) IN
            IF parsed.ok
            THEN results' = ResultsOfTree(parsed.v)
            ELSE results' = results
    /\ loading' = FALSE
    /\ UNCHANGED <<codecVars, pipelineVars, predictionResults, downloads, today>>

\* useEffect(() => { loadResults(); }, [])
loadResults ==
    /\ loading = TRUE
    /\ LET storedResults == predictionResults IN
       IF storedResults = Absent \/ ~Truthy(storedResults.text)
       THEN results' = results                              \* if (storedResults) is false
       ELSE LET parsed == JsonParse(storedResults.text) IN
            IF parsed.ok
            THEN results' = ResultsOfTree(parsed.v)         \* setResults(JSON.parse(...))
            ELSE results' = results                         \* JSON.parse throws, caught
    /\ loading' = FALSE
    /\ UNCHANGED <<codecVars, pipelineVars, predictionResults, downloads, today>>

\* the download sequence of both handlers: Blob, object URL, link.click()
Download(name, mime, text) ==
    downloads' = Append(downloads, [filename |-> name, type |-> mime, content |-> text])

downloadResults ==
    /\ loading = FALSE
    /\ \/ /\ results = NoResults                            \* if (!results) return
          /\ UNCHANGED vars
       \/ /\ results # NoResults
          /\ Len(downloads) < MaxDownloads
          /\ Download(<<"viral_prediction_results_", today, ".json">>,
                      "application/json", dataStr(results))
          /\ UNCHANGED <<codecVars, pipelineVars, predictionResults, results, loading, today>>

exportCSV ==
    /\ loading = FALSE
    /\ \/ /\ (results = NoResults \/ "detailed_results" \notin DOMAIN results)
          /\ UNCHANGED vars                                 \* early return
       \/ /\ results # NoResults
          /\ "detailed_results" \in DOMAIN results
          /\ Len(downloads) < MaxDownloads
          /\ Download(<<"viral_predictions_", today, ".csv">>,
                      "text/csv", csvContent(results))
          /\ UNCHANGED <<codecVars, pipelineVars, predictionResults, results, loading, today>>

\* the calendar day of new Date() moves on
NextDay ==
    /\ today < MaxDay
    /\ today' = today + 1
    /\ UNCHANGED <<codecVars, pipelineVars, predictionResults, results, loading, downloads>>

NextPage ==
    \/ loadResults
    \/ downloadResults
    \/ exportCSV
    \/ NextDay

SpecPage == InitPage /\ [][NextPage]_vars

(***************************************************************************)
(* The upload slot: localStorage 'uploadedFile' and 'fileContent'          *)
(***************************************************************************)
\* files the user can pick: a FASTA file, a plain text file, an empty file
FileA == [name |-> <<"a",".","f","a","s","t","a">>, size |-> 7, type |-> <<>>, content |-> <<">","X","\n","A","C","G","T">>]
FileB == [name |-> <<"b",".","t","x","t">>, size |-> 4, type |-> <<"t","e","x","t","/","p","l","a","i","n">>, content |-> <<"A","C","G","T">>]
FileEmpty == [name |-> <<"e",".","f","a">>, size |-> 0, type |-> <<>>, content |-> <<>>]
Files == {FileA, FileB, FileEmpty}

\* { name: uploadedFile.name, size: uploadedFile.size, type: uploadedFile.type }
FileInfo(file) == [name |-> file.name, size |-> file.size, type |-> file.type]

FileInfoTree(info) ==
    JObj(<< Member(<<"n","a","m","e">>, JStr(info.name)),
            Member(<<"s","i","z","e">>, JNum(NumberToString(info.size))),
            Member(<<"t","y","p","e">>, JStr(info.type)) >>)

\* JSON.stringify({ name, size, type })
JsonStringifyFileInfo(info) == Compact(FileInfoTree(info))

\* the value JSON.parse returns for a stored file info (null stays null)
FileInfoOfTree(tree) ==
    IF tree.t = "null" THEN NoFile
    ELSE [name |-> GetKey(tree, <<"n","a","m","e">>).v,
          size |-> StringToNumber(GetKey(tree, <<"s","i","z","e">>).v),
          type |-> GetKey(tree, <<"t","y","p","e">>).v]

\* what localStorage can hold under 'uploadedFile' and under 'fileContent'
StoredFileInfos == {Absent, Item(<<>>), Corrupt} \cup {Item(JsonStringifyFileInfo(FileInfo(f))) : f \in Files}
StoredContents == {Absent} \cup {Item(f.content) : f \in Files}

\* a value of localStorage.getItem used as a condition
TruthyItem(item) == item # Absent /\ Truthy(item.text)

(***************************************************************************)
(* ModelsPage: mount effect                                                *)
(***************************************************************************)
MaxTimers == 2      \* most notification timers outstanding at once

Notification(message, type) == [type |-> type, message |-> message]

\* showNotification(message, type): the notification and its 5 s timer
showNotification(message, type) ==
    /\ timers < MaxTimers
    /\ notification' = Notification(message, type)
    /\ timers' = timers + 1

\* setTimeout(() => setNotification(null), 5000) fires
NotificationTimeout ==
    /\ timers > 0
    /\ timers' = timers - 1
    /\ notification' = NoNotification
    /\ UNCHANGED <<codecVars, pageVars, storeVars, uploadVars, netVars, mounted, selectedModels,
                   isProcessing, backendStatus, uploadedFile, fileContent>>

Request(method, url, body) == [method |-> method, url |-> url, body |-> body]

\* the exception thrown by JSON.parse, escaping from the named function
SyntaxErrorFrom(name) == [from |-> name, error |-> "SyntaxError"]

\* loadUploadedFile(): JSON.parse is called outside any try block
loadUploadedFile ==
    LET fileInfo == storedUploadedFile
        content == storedFileContent
    IN IF TruthyItem(fileInfo) /\ TruthyItem(content)
       THEN LET parsed == JsonParse(fileInfo.text) IN
            IF parsed.ok
            THEN /\ uploadedFile' = FileInfoOfTree(parsed.v)
                 /\ fileContent' = content.text
                 /\ UNCHANGED <<notification, timers, uncaught>>
            ELSE /\ uncaught' = uncaught \cup {SyntaxErrorFrom("loadUploadedFile")}
                 /\ UNCHANGED <<uploadedFile, fileContent, notification, timers>>
       ELSE /\ showNotification("No file found. Please upload a file first.", "warning")
            /\ UNCHANGED <<uploadedFile, fileContent, uncaught>>

\* checkBackendStatus() up to its first await: fetch(`${API_URL}/health`)
checkBackendStatusFetch ==
    /\ requests' = Append(requests, Request("GET", "/health", <<>>))
    /\ healthPending' = healthPending + 1

\* useEffect(() => { checkBackendStatus(); loadUploadedFile(); }, [])
ModelsPageMount ==
    /\ mounted = FALSE
    /\ mounted' = TRUE
    /\ checkBackendStatusFetch
    /\ loadUploadedFile
    /\ UNCHANGED <<codecVars, pageVars, storeVars, uploadVars, selectedModels, isProcessing,
                   backendStatus, pending, outcomes, hash, navTimers, api>>

(***************************************************************************)
(* UploadPage: choosing a file and handing it to the models stage          *)
(***************************************************************************)
MaxReaders == 2     \* most FileReaders reading at once

TextPlain == <<"t","e","x","t","/","p","l","a","i","n">>

FileBad == [name |-> <<"x",".","p","d","f">>, size |-> 3, type |-> <<"a","p","p","l","i","c","a","t","i","o","n","/","p","d","f">>, content |-> <<"%","P","D","F">>]

LowerChar(c) ==
    IF \E k \in 1..26 : UpperLetters[k] = c
    THEN LowerLetters[CHOOSE k \in 1..26 : UpperLetters[k] = c]
    ELSE c

\* String.prototype.toLowerCase
ToLowerCase(s) == [k \in 1..Len(s) |-> LowerChar(s[k])]

EndsWith(s, suffix) ==
    Len(s) >= Len(suffix) /\ SubSeq(s, Len(s) - Len(suffix) + 1, Len(s)) = suffix

\* file.name.toLowerCase().match(/\.(fasta|fas|fa|fna|txt)$/)
MatchesFastaExtension(name) ==
    \E ext \in {<<".","f","a","s","t","a">>, <<".","f","a","s">>, <<".","f","a">>, <<".","f","n","a">>, <<".","t","x","t">>} : EndsWith(ToLowerCase(name), ext)

\* UploadPage showNotification(message, type)
uploadShowNotification(message, type) ==
    /\ uploadTimers < MaxTimers
    /\ uploadNotification' = Notification(message, type)
    /\ uploadTimers' = uploadTimers + 1

\* UploadPage setTimeout(() => setNotification(null), 5000) fires
UploadNotificationTimeout ==
    /\ uploadTimers > 0
    /\ uploadTimers' = uploadTimers - 1
    /\ uploadNotification' = NoNotification
    /\ UNCHANGED <<codecVars, pageVars, storeVars, modelsVars, netVars, uploadPageFile, rawSequence,
                   readers>>

\* handleFileSelect(files) with files[0] = file
handleFileSelect(file) ==
    /\ IF ~MatchesFastaExtension(file.name)
       THEN /\ uploadShowNotification("Please select a FASTA file", "error")
            /\ UNCHANGED <<uploadPageFile, rawSequence>>
       ELSE /\ uploadPageFile' = file
            /\ rawSequence' = <<>>
            /\ uploadShowNotification("File selected", "success")
    /\ UNCHANGED <<codecVars, pageVars, storeVars, modelsVars, netVars, readers>>

\* what the user can type into the text area
RawTexts == {<<" ">>, <<"a","c">>, <<"a","x">>}

\* onChange={(e) => setRawSequence(e.target.value)}
setRawSequence(text) ==
    /\ rawSequence' = text
    /\ UNCHANGED <<codecVars, pageVars, storeVars, modelsVars, netVars, uploadPageFile, readers,
                   uploadNotification, uploadTimers>>

\* the test of the characters left out: any text that is not empty passes
uploadValidateDNASequenceAnyText(s) == Len(s) >= 1

\* UploadPage validateDNASequence: /^[ATGCN\s\n\r]+$/i.test(sequence)
uploadValidateDNASequence(s) ==
    /\ Len(s) >= 1
    /\ \A i \in 1..Len(s) : IsBaseIgnoreCase(s[i]) \/ IsSpace(s[i])

\* new File([blob], 'user_sequence.fasta', { type: 'text/plain' }) over
\* `>User_Sequence\n${cleanSequence}`
UserSequenceFile(seq) ==
    LET cleanSequence == ToUpperCase(RemoveWhitespace(seq))
        fastaContent == <<">","U","s","e","r","_","S","e","q","u","e","n","c","e","\n">> \o cleanSequence
    IN [name |-> <<"u","s","e","r","_","s","e","q","u","e","n","c","e",".","f","a","s","t","a">>, size |-> Len(fastaContent), type |-> TextPlain, content |-> fastaContent]

\* processRawSequence(): the handler of the "process sequence" button
processRawSequence ==
    /\ LET seq == Trim(rawSequence) IN
       IF ~Truthy(seq)
       THEN /\ uploadShowNotification("Please enter a DNA sequence", "error")
            /\ UNCHANGED uploadPageFile
       ELSE IF ~uploadValidateDNASequence(seq)
       THEN /\ uploadShowNotification("Invalid DNA sequence. Only A, T, G, C, N characters allowed.", "error")
            /\ UNCHANGED uploadPageFile
       ELSE /\ uploadPageFile' = UserSequenceFile(seq)
            /\ uploadShowNotification("Sequence processed! Ready for prediction.", "success")
    /\ UNCHANGED <<codecVars, pageVars, storeVars, modelsVars, netVars, rawSequence, readers>>

\* proceedToModels(): reader.readAsText(uploadedFile) is started, onload runs later
proceedToModels ==
    /\ IF uploadPageFile = NoFile
       THEN /\ uploadShowNotification("Please select a file or enter a sequence first", "error")
            /\ UNCHANGED readers
       ELSE /\ Len(readers) < MaxReaders
            /\ readers' = Append(readers, uploadPageFile)
            /\ UNCHANGED <<uploadNotification, uploadTimers>>
    /\ UNCHANGED <<codecVars, pageVars, storeVars, modelsVars, netVars, uploadPageFile, rawSequence>>

\* the exception thrown by localStorage.setItem when the quota is exceeded
QuotaExceededFrom(name) == [from |-> name, error |-> "QuotaExceededError"]

RemoveAt(s, k) == SubSeq(s, 1, k - 1) \o SubSeq(s, k + 1, Len(s))

\* what can happen to the two setItem calls of reader.onload: both store, the
\* first throws, or the second throws (the content does not fit the quota)
OnloadOutcomes == {"stored", "uploadedFileThrows", "fileContentThrows"}

\* the second setItem of reader.onload
onloadSetFileContent(content, outcome) ==
    storedFileContent' = IF outcome = "stored" THEN Item(content) ELSE storedFileContent

\* reader.onload = (e) => { setItem('uploadedFile', ...); setItem('fileContent', ...); hash = 'models' }
\* for the k-th reader; the file is the one proceedToModels was called with
ReaderOnload(k, outcome) ==
    /\ k \in 1..Len(readers)
    /\ readers' = RemoveAt(readers, k)
    /\ storedUploadedFile' =
          IF outcome = "uploadedFileThrows" THEN storedUploadedFile
          ELSE Item(JsonStringifyFileInfo(FileInfo(readers[k])))
    /\ IF outcome = "uploadedFileThrows"
       THEN UNCHANGED storedFileContent
       ELSE onloadSetFileContent(readers[k].content, outcome)
    /\ hash' = IF outcome = "stored" THEN "models" ELSE hash
    /\ uncaught' = IF outcome = "stored" THEN uncaught
                   ELSE uncaught \cup {QuotaExceededFrom("proceedToModels")}
    /\ UNCHANGED <<codecVars, pageVars, modelsVars, uploadPageFile, rawSequence, uploadNotification,
                   uploadTimers,
                   requests, pending, healthPending, outcomes, navTimers, api>>

(***************************************************************************)
(* ModelsPage: health check, model selection, prediction                   *)
(***************************************************************************)
MaxRuns == 2        \* most predict requests ModelsPage sends in one run

\* how GET /health can end: fetch rejects, the body is not JSON, the body says
\* status 'healthy', the body says another status
HealthOutcomes == {"unreachable", "notJson", "healthy", "unhealthy"}

\* checkBackendStatus() after its awaits
CheckBackendStatusResponse(outcome) ==
    /\ healthPending > 0
    /\ healthPending' = healthPending - 1
    /\ CASE outcome = "healthy" ->
              /\ backendStatus' = "connected"
              /\ showNotification("Backend connected successfully!", "success")
         [] outcome = "unhealthy" ->
              UNCHANGED <<backendStatus, notification, timers>>
         [] OTHER ->
              /\ backendStatus' = "disconnected"
              /\ showNotification("Backend server not running. Please start Flask server.", "error")
    /\ UNCHANGED <<codecVars, pageVars, storeVars, uploadVars, mounted, selectedModels, isProcessing,
                   uploadedFile, fileContent, requests, pending, outcomes, uncaught, hash,
                   navTimers, api>>

\* models.find(m => m.id === modelId)
ModelById(modelId) == models[CHOOSE k \in 1..Len(models) : models[k].id = modelId]

ModelIds == {models[k].id : k \in 1..Len(models)}

\* the test of the new selection left out
selectionEmptyIgnored(newSelection) == FALSE

\* newSelection.size === 0
selectionEmpty(newSelection) == newSelection = {}

\* handleModelSelection(modelId)
handleModelSelection(modelId) ==
    /\ mounted
    /\ LET model == ModelById(modelId)
           newSelection == IF modelId \in selectedModels
                           THEN selectedModels \ {modelId}
                           ELSE selectedModels \cup {modelId}
       IN IF ~model.trained
          THEN /\ showNotification("is not yet implemented. Using Random Forest for now.", "warning")
               /\ UNCHANGED selectedModels
          ELSE IF selectionEmpty(newSelection)
          THEN /\ showNotification("At least one model must be selected", "warning")
               /\ UNCHANGED selectedModels
          ELSE /\ selectedModels' = newSelection
               /\ UNCHANGED <<notification, timers>>
    /\ UNCHANGED <<codecVars, pageVars, storeVars, uploadVars, netVars, mounted, isProcessing,
                   backendStatus, uploadedFile, fileContent>>

\* the run button without the isProcessing part of its disabled attribute
RunButtonEnabledWhileProcessing ==
    ~(uploadedFile = NoFile \/ selectedModels = {})

\* the run button: disabled={isProcessing || !uploadedFile || selectedModels.size === 0}
RunButtonEnabled ==
    ~(isProcessing \/ uploadedFile = NoFile \/ selectedModels = {})

\* the third guard of runPrediction, removed
BackendGuardMissing == FALSE

\* the third guard of runPrediction: backendStatus !== 'connected'
BackendGuard == backendStatus # "connected"

\* new File([blob], uploadedFile.name, { type: 'text/plain' })
PredictFile == [name |-> uploadedFile.name, type |-> TextPlain, content |-> fileContent]

\* formData of runPrediction: formData.append('file', file) and nothing else
PredictFormData == << [name |-> "file", value |-> PredictFile] >>

\* runPrediction() up to await fetch, started by a click on the run button
runPrediction ==
    /\ mounted
    /\ RunButtonEnabled
    /\ IF uploadedFile = NoFile \/ fileContent = NoContent \/ ~Truthy(fileContent)
       THEN /\ showNotification("No file uploaded. Please upload a file first.", "error")
            /\ UNCHANGED <<isProcessing, requests, pending>>
       ELSE IF selectedModels = {}
       THEN /\ showNotification("Please select at least one model", "error")
            /\ UNCHANGED <<isProcessing, requests, pending>>
       ELSE IF BackendGuard
       THEN /\ showNotification("Backend not connected. Please start the Flask server.", "error")
            /\ UNCHANGED <<isProcessing, requests, pending>>
       ELSE /\ pending + Len(outcomes) < MaxRuns
            /\ isProcessing' = TRUE
            /\ showNotification("Running prediction on your sequences...", "info")
            /\ requests' = Append(requests, Request("POST", "/predict", PredictFormData))
            /\ pending' = pending + 1
    /\ UNCHANGED <<codecVars, pageVars, storeVars, uploadVars, mounted, selectedModels, backendStatus,
                   uploadedFile, fileContent, healthPending, outcomes, uncaught, hash, navTimers, api>>

\* results objects the service answers with
ServiceResults ==
    { [summary |-> [total_sequences |-> 0]],
      [summary |-> [total_sequences |-> 1],
       detailed_results |-> << [sequence_id |-> <<"s","1">>, prediction |-> <<"V","i","r","a","l">>,
                                probability |-> 87346, sequence_length |-> 120] >>] }

\* how POST /predict can end: fetch rejects; the body is not JSON; the body has
\* success false (or none) and an error; success true with results; success true
\* without results; success true with results that setItem cannot store
PredictOutcomes ==
    { [kind |-> "unreachable"], [kind |-> "notJson"], [kind |-> "rejected"],
      [kind |-> "successNoResults"] }
    \cup { [kind |-> "success", results |-> r] : r \in ServiceResults }
    \cup { [kind |-> "successQuota", results |-> r] : r \in ServiceResults }

\* a finally block that leaves isProcessing alone
runPredictionFinallyMissing == isProcessing' = isProcessing

\* a finally block that sets isProcessing again
runPredictionFinallySetsTrue == isProcessing' = TRUE

\* finally { setIsProcessing(false) }
runPredictionFinally == isProcessing' = FALSE

\* JSON.stringify(data.results), converted to a string by setItem
StoredResultsText(outcome) ==
    IF outcome.kind \in {"success", "successQuota"}
    THEN Item(JsonStringifyResults(outcome.results))
    ELSE Corrupt

\* the test of the response replaced by a test that the body was JSON
dataSuccessAnyJson(outcome) == outcome.kind \in {"success", "successNoResults", "rejected"}

\* if (data.success), for a body that was parsed and a setItem that did not throw
dataSuccess(outcome) == outcome.kind \in {"success", "successNoResults"}

\* a failure branch that also removes the stored results
predictionFailedClearsResults(message) ==
    /\ showNotification(message, "error")
    /\ predictionResults' = Absent
    /\ UNCHANGED navTimers

\* the else branch and the catch block of runPrediction: a notification only
predictionFailed(message) ==
    /\ showNotification(message, "error")
    /\ UNCHANGED <<predictionResults, navTimers>>

\* runPrediction() after its awaits: the response of one pending request
PredictResponse(outcome) ==
    /\ pending > 0
    /\ pending' = pending - 1
    /\ outcomes' = Append(outcomes, outcome)
    /\ CASE dataSuccess(outcome) ->
              /\ predictionResults' = StoredResultsText(outcome)
              /\ showNotification("Prediction completed! Showing results...", "success")
              /\ navTimers' = navTimers + 1
         [] outcome.kind = "rejected" ->
              predictionFailed("Prediction failed: data.error")
         [] OTHER ->
              predictionFailed("Prediction failed. Please check the backend connection.")
    /\ runPredictionFinally
    /\ UNCHANGED <<codecVars, results, loading, downloads, today, storeVars, uploadVars, mounted,
                   selectedModels, backendStatus, uploadedFile, fileContent, requests,
                   healthPending, uncaught, hash, api>>

\* setTimeout(() => { window.location.hash = 'results'; }, 1500) fires
NavigateToResults ==
    /\ navTimers > 0
    /\ navTimers' = navTimers - 1
    /\ hash' = "results"
    /\ UNCHANGED <<codecVars, pageVars, storeVars, uploadVars, modelsVars, requests, pending,
                   healthPending, outcomes, uncaught, api>>

(***************************************************************************)
(* Specification of ModelsPage: the page mounts over a stored upload (or   *)
(* none), checks the service, and runs predictions                         *)
(***************************************************************************)
\* the upload slot as proceedToModels leaves it for a file, or empty
SavedUploadSlots ==
    { <<Absent, Absent>> }
        \cup { <<Item(JsonStringifyFileInfo(FileInfo(f))), Item(f.content)>> : f \in {FileA, FileB} }

\* every page before its mount effect, nothing in flight
PagesIdle ==
    /\ results = NoResults
    /\ loading = TRUE
    /\ downloads = <<>>
    /\ today = 1
    /\ uploadPageFile = NoFile
    /\ rawSequence = <<>>
    /\ readers = <<>>
    /\ uploadNotification = NoNotification
    /\ uploadTimers = 0
    /\ mounted = FALSE
    /\ selectedModels = {RandomForest}
    /\ isProcessing = FALSE
    /\ notification = NoNotification
    /\ backendStatus = "checking"
    /\ uploadedFile = NoFile
    /\ fileContent = NoContent
    /\ timers = 0
    /\ requests = <<>>
    /\ pending = 0
    /\ healthPending = 0
    /\ outcomes = <<>>
    /\ uncaught = {}
    /\ navTimers = 0
    /\ api = <<>>

InitModels ==
    /\ CodecIdle
    /\ PagesIdle
    /\ predictionResults = Absent
    /\ \E slot \in SavedUploadSlots :
          /\ storedUploadedFile = slot[1]
          /\ storedFileContent = slot[2]
    /\ hash = "models"

NextModels ==
    \/ ModelsPageMount
    \/ \E outcome \in HealthOutcomes : CheckBackendStatusResponse(outcome)
    \/ \E modelId \in ModelIds : handleModelSelection(modelId)
    \/ runPrediction
    \/ \E outcome \in PredictOutcomes : PredictResponse(outcome)
    \/ NavigateToResults
    \/ NotificationTimeout

SpecModels == InitModels /\ [][NextModels]_vars

\* ModelsPage with its callbacks running: every fetch of /predict settles
\* (resolves or rejects) and every notification timer fires after its 5 s
SpecModelsFair ==
    /\ SpecModels
    /\ SF_vars(\E outcome \in PredictOutcomes : PredictResponse(outcome))
    /\ WF_vars(NotificationTimeout)

(***************************************************************************)
(* Specification of UploadPage: files are chosen and handed over           *)
(***************************************************************************)
InitUpload ==
    /\ CodecIdle
    /\ PagesIdle
    /\ predictionResults = Absent
    /\ \E slot \in SavedUploadSlots :
          /\ storedUploadedFile = slot[1]
          /\ storedFileContent = slot[2]
    /\ hash = "upload"

NextUpload ==
    \/ \E file \in {FileA, FileBad} : handleFileSelect(file)
    \/ \E text \in RawTexts : setRawSequence(text)
    \/ processRawSequence
    \/ proceedToModels
    \/ \E k \in 1..MaxReaders, outcome \in OnloadOutcomes : ReaderOnload(k, outcome)
    \/ UploadNotificationTimeout

SpecUpload == InitUpload /\ [][NextUpload]_vars

(***************************************************************************)
(* The storage helper of the utilities                                     *)
(***************************************************************************)
StoreKeys == {"uploadedFile", "fileContent", "predictionResults"}

\* the item stored under a key
GetItem(key) ==
    CASE key = "uploadedFile" -> storedUploadedFile
      [] key = "fileContent" -> storedFileContent
      [] key = "predictionResults" -> predictionResults

\* localStorage after its items become those of the function items
StoreBecomes(items) ==
    /\ storedUploadedFile' = items["uploadedFile"]
    /\ storedFileContent' = items["fileContent"]
    /\ predictionResults' = items["predictionResults"]

\* the keys deleted by a removeItem that deletes the whole slot of the key
removeItemWholeSlot(key) ==
    IF key = "predictionResults" THEN {key} ELSE {"uploadedFile", "fileContent"}

\* the keys deleted by localStorage.removeItem(key)
removeItem(key) == {key}

\* values handed to storage.set, and the text JSON.stringify gives for each
StorageValues ==
    { [key |-> "uploadedFile", text |-> JsonStringifyFileInfo(FileInfo(FileB))],
      [key |-> "fileContent", text |-> Compact(JStr(FileB.content))],
      [key |-> "predictionResults",
       text |-> JsonStringifyResults([summary |-> [total_sequences |-> 0]])] }

\* storage.set(key, value); a QuotaExceededError of setItem is caught
StorageSet(arg, stored) ==
    /\ fn' = "storage.set"
    /\ out' = Null
    /\ StoreBecomes([k \in StoreKeys |->
                        IF k = arg.key /\ stored THEN Item(arg.text) ELSE GetItem(k)])
    /\ UNCHANGED <<sequence, id, results, loading, downloads, today, uploadVars, modelsVars, netVars>>

\* storage.get(key): the parsed item, null for a missing or empty item and for
\* a text that is not JSON
StorageGet(key) ==
    /\ fn' = "storage.get"
    /\ out' = LET item == GetItem(key)
                  parsed == IF TruthyItem(item) THEN JsonParse(item.text) ELSE ParseFailed
              IN IF parsed.ok THEN parsed.v ELSE JNull
    /\ UNCHANGED <<sequence, id, pageVars, pipelineVars>>

\* storage.remove(key)
StorageRemove(key) ==
    /\ fn' = "storage.remove"
    /\ out' = Null
    /\ StoreBecomes([k \in StoreKeys |-> IF k \in removeItem(key) THEN Absent ELSE GetItem(k)])
    /\ UNCHANGED <<sequence, id, results, loading, downloads, today, uploadVars, modelsVars, netVars>>

\* storage.clear(): localStorage.clear()
StorageClear ==
    /\ fn' = "storage.clear"
    /\ out' = Null
    /\ StoreBecomes([k \in StoreKeys |-> Absent])
    /\ UNCHANGED <<sequence, id, results, loading, downloads, today, uploadVars, modelsVars, netVars>>

(***************************************************************************)
(* Specification of the store: the operations of the program that write    *)
(* localStorage, started in the states in which the writes of the pages    *)
(* are pending (files being read by UploadPage, a predict request of       *)
(* ModelsPage awaiting its response)                                       *)
(***************************************************************************)
\* the request runPrediction sends for a loaded file
PredictRequestFor(file) ==
    Request("POST", "/predict",
            << [name |-> "file",
                value |-> [name |-> file.name, type |-> TextPlain, content |-> file.content]] >>)

\* ModelsPage after mounting over the stored file, a healthy answer of the
\* service, a click on the run button and the end of the notification timers
ModelsPageAwaitingResponse(file) ==
    /\ mounted = TRUE
    /\ selectedModels = {RandomForest}
    /\ isProcessing = TRUE
    /\ notification = NoNotification
    /\ backendStatus = "connected"
    /\ uploadedFile = FileInfo(file)
    /\ fileContent = file.content
    /\ timers = 0
    /\ requests = <<Request("GET", "/health", <<>>), PredictRequestFor(file)>>
    /\ pending = 1
    /\ hash = "models"

\* ModelsPage before its mount effect
ModelsPageUnmounted ==
    /\ mounted = FALSE
    /\ selectedModels = {RandomForest}
    /\ isProcessing = FALSE
    /\ notification = NoNotification
    /\ backendStatus = "checking"
    /\ uploadedFile = NoFile
    /\ fileContent = NoContent
    /\ timers = 0
    /\ requests = <<>>
    /\ pending = 0
    /\ hash = "upload"

InitStore ==
    /\ CodecIdle
    /\ results = NoResults
    /\ loading = TRUE
    /\ downloads = <<>>
    /\ today = 1
    /\ predictionResults \in {Absent, Item(JsonStringifyResults([summary |-> [total_sequences |-> 0]]))}
    /\ \E slot \in SavedUploadSlots :
          /\ storedUploadedFile = slot[1]
          /\ storedFileContent = slot[2]
    /\ \E file \in {FileA, FileB} :
          /\ uploadPageFile = file
          /\ readers \in {<<>>, <<file>>, <<FileA, file>>}
    /\ rawSequence = <<>>
    /\ uploadNotification = NoNotification
    /\ uploadTimers = 0
    /\ ModelsPageUnmounted \/ ModelsPageAwaitingResponse(FileA)
    /\ healthPending = 0
    /\ outcomes = <<>>
    /\ uncaught = {}
    /\ navTimers = 0
    /\ api = <<>>

NextStore ==
    \/ \E k \in 1..MaxReaders, outcome \in OnloadOutcomes : ReaderOnload(k, outcome)
    \/ \E outcome \in PredictOutcomes : PredictResponse(outcome)
    \/ NotificationTimeout
    \/ NavigateToResults
    \/ \E arg \in StorageValues, stored \in BOOLEAN : StorageSet(arg, stored)
    \/ \E key \in StoreKeys : StorageRemove(key)
    \/ StorageClear

SpecStore == InitStore /\ [][NextStore]_vars

(***************************************************************************)
(* ApiService and the exported checkBackendStatus                          *)
(***************************************************************************)
MaxCalls == 1       \* most calls of the service functions in one run

\* what fetch and the service can do with one request: fetch rejects with a
\* TypeError (its message depends on the browser), or a response arrives whose
\* body is JSON (data) or is not
Rejects(message) == [kind |-> "rejects", message |-> message]
Responds(ok, status, data) == [kind |-> "response", ok |-> ok, status |-> status, json |-> TRUE, data |-> data]
RespondsNotJson(ok, status) == [kind |-> "response", ok |-> ok, status |-> status, json |-> FALSE]

FetchRejections == {Rejects("Failed to fetch"), Rejects("Load failed")}

\* error.message.includes('fetch')
IncludesFetch(message) == message = "Failed to fetch"

HealthData == [status |-> "healthy", model_trained |-> TRUE, training_accuracy |-> 95]

HealthResponses ==
    FetchRejections
        \cup { Responds(TRUE, 200, HealthData),
               Responds(FALSE, 500, [error |-> "Internal error"]),
               RespondsNotJson(TRUE, 200),
               RespondsNotJson(FALSE, 502) }

PredictResponses ==
    FetchRejections
        \cup { Responds(TRUE, 200, [success |-> TRUE, results |-> r]) : r \in ServiceResults }
        \cup { Responds(TRUE, 200, [success |-> TRUE]),
               Responds(TRUE, 200, [success |-> FALSE, error |-> "No sequences found"]),
               Responds(FALSE, 400, [success |-> FALSE, error |-> "No file provided"]),
               Responds(FALSE, 500, [success |-> FALSE]),
               RespondsNotJson(TRUE, 200),
               RespondsNotJson(FALSE, 502) }

Returned(value) == [ended |-> "returned", value |-> value]
Thrown(name, message) == [ended |-> "thrown", value |-> [name |-> name, message |-> message]]

\* ApiService.request(endpoint, options) for one answer of the service
request(response) ==
    IF response.kind = "rejects"
    THEN IF IncludesFetch(response.message)
         THEN Thrown("Error", "Backend server not running. Please start the Flask server on port 5000.")
         ELSE Thrown("TypeError", response.message)
    ELSE IF ~response.json THEN Thrown("SyntaxError", "Unexpected token")
    ELSE IF ~response.ok
         THEN IF "error" \in DOMAIN response.data
              THEN Thrown("Error", response.data.error)
              ELSE Thrown("Error", "HTTP error! status")
    ELSE Returned(response.data)

\* exported checkBackendStatus that lets the rejection of fetch escape
checkBackendStatusUncaught(response) ==
    IF response.kind = "rejects" THEN Thrown("TypeError", response.message)
    ELSE IF response.ok
         THEN IF response.json
              THEN Returned([isRunning |-> TRUE, status |-> response.data.status,
                             modelTrained |-> response.data.model_trained,
                             accuracy |-> response.data.training_accuracy])
              ELSE Returned([isRunning |-> FALSE, error |-> "Unexpected token"])
    ELSE Returned([isRunning |-> FALSE, error |-> "HTTP status"])

\* exported checkBackendStatus() for one answer of the service
checkBackendStatus(response) ==
    IF response.kind = "rejects" THEN Returned([isRunning |-> FALSE, error |-> response.message])
    ELSE IF response.ok
         THEN IF response.json
              THEN Returned([isRunning |-> TRUE, status |-> response.data.status,
                             modelTrained |-> response.data.model_trained,
                             accuracy |-> response.data.training_accuracy])
              ELSE Returned([isRunning |-> FALSE, error |-> "Unexpected token"])
    ELSE Returned([isRunning |-> FALSE, error |-> "HTTP status"])

\* one finished call: the function, the requests it handed to fetch, the
\* answer of the service and how the call ended
Call(name, sent, response, end) ==
    [fn |-> name, requests |-> sent, response |-> response, ended |-> end.ended, value |-> end.value]

CallCheckBackendStatus(response) ==
    /\ Len(api) < MaxCalls
    /\ api' = Append(api, Call("checkBackendStatus", <<Request("GET", "/health", <<>>)>>,
                               response, checkBackendStatus(response)))
    /\ UNCHANGED <<codecVars, pageVars, storeVars, uploadVars, modelsVars, requests, pending,
                   healthPending, outcomes, uncaught, hash, navTimers>>

\* apiService.healthCheck(): the result of request('/health'), errors rethrown
CallHealthCheck(response) ==
    /\ Len(api) < MaxCalls
    /\ api' = Append(api, Call("healthCheck", <<Request("GET", "/health", <<>>)>>,
                               response, request(response)))
    /\ UNCHANGED <<codecVars, pageVars, storeVars, uploadVars, modelsVars, requests, pending,
                   healthPending, outcomes, uncaught, hash, navTimers>>

\* JSON.stringify(selectedModels) for an array of ids
JsonStringifyModels(ids) == Compact(JArr([k \in 1..Len(ids) |-> JStr(ids[k])]))

\* formData of ApiService.predict: 'file' and 'models'
ApiPredictFormData(file, ids) ==
    << [name |-> "file", value |-> file], [name |-> "models", value |-> JsonStringifyModels(ids)] >>

\* arrays of model ids handed to ApiService.predict
ModelIdArrays == {<<RandomForest>>, <<RandomForest, XGBoost>>, <<>>}

\* apiService.predict(file, selectedModels): the result of request('/predict'), errors rethrown
CallPredict(file, ids, response) ==
    /\ Len(api) < MaxCalls
    /\ api' = Append(api, Call("predict", <<Request("POST", "/predict", ApiPredictFormData(file, ids))>>,
                               response, request(response)))
    /\ UNCHANGED <<codecVars, pageVars, storeVars, uploadVars, modelsVars, requests, pending,
                   healthPending, outcomes, uncaught, hash, navTimers>>

(***************************************************************************)
(* Specification of the health checks and the service functions: the       *)
(* functions are called once each way, next to a ModelsPage that mounts    *)
(* and checks the service itself                                           *)
(***************************************************************************)
InitApi ==
    /\ CodecIdle
    /\ PagesIdle
    /\ predictionResults = Absent
    /\ \E slot \in SavedUploadSlots :
          /\ storedUploadedFile = slot[1]
          /\ storedFileContent = slot[2]
    /\ hash = "models"

NextApi ==
    \/ \E response \in HealthResponses : CallCheckBackendStatus(response)
    \/ \E response \in HealthResponses : CallHealthCheck(response)
    \/ \E file \in {FileA, FileB}, ids \in ModelIdArrays, response \in PredictResponses :
          CallPredict(file, ids, response)
    \/ ModelsPageMount
    \/ \E outcome \in HealthOutcomes : CheckBackendStatusResponse(outcome)
    \/ NotificationTimeout

SpecApi == InitApi /\ [][NextApi]_vars

(***************************************************************************)
(* Specification of the two readers of localStorage: the mount effects of  *)
(* ModelsPage and ResultsPage over every content of the two slots          *)
(***************************************************************************)
\* the upload slot empty, and the upload slot holding FileA
UploadSlots ==
    { <<Absent, Absent>>, <<Item(JsonStringifyFileInfo(FileInfo(FileA))), Item(FileA.content)>> }

InitLoad ==
    /\ CodecIdle
    /\ PagesIdle
    /\ \/ /\ predictionResults \in StoredValues
          /\ \E slot \in UploadSlots :
                /\ storedUploadedFile = slot[1]
                /\ storedFileContent = slot[2]
       \/ /\ predictionResults = Absent
          /\ storedUploadedFile \in StoredFileInfos
          /\ storedFileContent \in StoredContents
    /\ hash = "upload"

NextLoad ==
    \/ ModelsPageMount
    \/ loadResults
    \/ \E key \in StoreKeys : StorageGet(key)
    \/ NotificationTimeout

SpecLoad == InitLoad /\ [][NextLoad]_vars

(***************************************************************************)
(* validateFile of the utilities, and the check handleFileSelect makes     *)
(***************************************************************************)
\* allowedTypes = ['.fasta', '.fas', '.fa', '.fna', '.txt']
DefaultAllowedTypes == <<<<".","f","a","s","t","a">>, <<".","f","a","s">>, <<".","f","a">>, <<".","f","n","a">>, <<".","t","x","t">>>>

\* maxSize = 100 * 1024 * 1024
DefaultMaxSize == 100 * 1024 * 1024

\* allowedTypes.some(type => fileName.endsWith(type))
hasValidExtension(fileName, allowedTypes) ==
    \E k \in 1..Len(allowedTypes) : EndsWith(fileName, allowedTypes[k])

\* file.size > maxSize
fileTooLarge(file, maxSize) == file.size > maxSize

\* validateFile(file, allowedTypes, maxSize): { valid, errors }
validateFile(file, allowedTypes, maxSize) ==
    IF file = NoFile
    THEN [valid |-> FALSE, errors |-> <<"No file provided">>]
    ELSE LET typeErrors == IF ~hasValidExtension(ToLowerCase(file.name), allowedTypes)
                           THEN <<"Invalid file type">> ELSE <<>>
             errors == IF fileTooLarge(file, maxSize)
                       THEN Append(typeErrors, "File too large") ELSE typeErrors
         IN [valid |-> Len(errors) = 0, errors |-> errors]

\* a file of which only the name and the size are looked at: its text is not read
FileOf(name, size) == [name |-> name, size |-> size, type |-> <<>>, content |-> NoContent]

FileNames == {<<"a",".","f","a","s","t","a">>, <<"B",".","F","N","A">>, <<"x",".","p","d","f">>, <<"f","a","s","t","a">>}
FileSizes == {7, DefaultMaxSize, DefaultMaxSize + 1}
CandidateFiles == {FileOf(name, size) : name \in FileNames, size \in FileSizes}

\* a call validateFile(file) or validateFile(file, allowedTypes, maxSize)
CallValidateFile(file, maxSize) ==
    /\ fn' = "validateFile"
    /\ sequence' = [file |-> file, maxSize |-> maxSize]
    /\ out' = validateFile(file, DefaultAllowedTypes, maxSize)
    /\ UNCHANGED <<id, pageVars, pipelineVars>>

InitValidate ==
    /\ CodecIdle
    /\ PagesIdle
    /\ predictionResults = Absent
    /\ storedUploadedFile = Absent
    /\ storedFileContent = Absent
    /\ hash = "upload"

NextValidate ==
    \/ \E file \in CandidateFiles \cup {NoFile}, maxSize \in {DefaultMaxSize, 7} :
          CallValidateFile(file, maxSize)
    \/ \E file \in CandidateFiles : handleFileSelect(file)
    \/ UploadNotificationTimeout

SpecValidate == InitValidate /\ [][NextValidate]_vars

(***************************************************************************)
(* Specification of the pipeline: one pass from the upload page over the   *)
(* models page to the results stage, started with nothing stored.  The     *)
(* handlers of a page run while window.location.hash names the page; the   *)
(* callbacks (reader.onload, timers, responses) run whenever they are due  *)
(***************************************************************************)
InitPipeline ==
    /\ CodecIdle
    /\ PagesIdle
    /\ predictionResults = Absent
    /\ storedUploadedFile = Absent
    /\ storedFileContent = Absent
    /\ hash = "upload"

NextPipeline ==
    \/ hash = "upload" /\ \E file \in {FileA, FileBad} : handleFileSelect(file)
    \/ hash = "upload" /\ proceedToModels
    \/ \E k \in 1..MaxReaders, outcome \in OnloadOutcomes : ReaderOnload(k, outcome)
    \/ UploadNotificationTimeout
    \/ hash = "models" /\ ModelsPageMount
    \/ \E outcome \in HealthOutcomes : CheckBackendStatusResponse(outcome)
    \/ hash = "models" /\ runPrediction
    \/ \E outcome \in PredictOutcomes : PredictResponse(outcome)
    \/ NavigateToResults
    \/ NotificationTimeout

SpecPipeline == InitPipeline /\ [][NextPipeline]_vars

(***************************************************************************)
(* Vocabulary of the properties                                            *)
(***************************************************************************)
BaseLetters == {"A", "T", "G", "C", "N", "a", "t", "g", "c", "n"}

Whitespace == {" ", "\t", "\n", "\r", "\f"}

OnlyBasesAndWhitespace(s) == \A i \in 1..Len(s) : s[i] \in BaseLetters \cup Whitespace

HasBase(s) == \E i \in 1..Len(s) : s[i] \in BaseLetters

HasForeignChar(s) == \E i \in 1..Len(s) : s[i] \notin BaseLetters \cup Whitespace

OnlyWhitespace(s) == \A i \in 1..Len(s) : s[i] \in Whitespace

\* positions of the characters of s that are not whitespace
KeptPositions(s) == {i \in 1..Len(s) : s[i] \notin Whitespace}

\* the k-th smallest element of a set of positions
NthPosition(P, k) == CHOOSE i \in P : Cardinality({j \in P : j <= i}) = k

CountChar(s, c) == Cardinality({i \in 1..Len(s) : s[i] = c})

(***************************************************************************)
(* C1..C5: validation, normalisation, FASTA construction, round trip       *)
(***************************************************************************)

\* C1: validateDNASequence(s) is true for every s made only of the letters
\* A,T,G,C,N (either case) interleaved with whitespace, and false for every s
\* with a character outside {A,T,G,C,N, whitespace}.  (A text with no letter
\* at all is the case of C2.)
C1_ValidateAcceptsBasesRejectsForeign ==
    fn = "validateDNASequence" =>
        /\ (OnlyBasesAndWhitespace(sequence) /\ HasBase(sequence)) => out = TRUE
        /\ HasForeignChar(sequence) => out = FALSE

C1_Witness ==
    /\ fn = "validateDNASequence"
    /\ out = TRUE
    /\ \E i, j \in 1..Len(sequence) : sequence[i] = "g" /\ sequence[j] = "\n"

\* C2: validateDNASequence returns false for every string that is empty after
\* trimming (the empty string and every whitespace-only string).
C2_ValidateRejectsEmptyAfterTrim ==
    (fn = "validateDNASequence" /\ OnlyWhitespace(sequence)) => out = FALSE

\* C3: cleanDNASequence returns the input with every whitespace character
\* removed and every remaining character uppercased, in the same order; the
\* output contains no whitespace.
C3_CleanRemovesWhitespaceAndUppercases ==
    fn = "cleanDNASequence" =>
        LET P == KeptPositions(sequence) IN
        /\ Len(out) = Cardinality(P)
        /\ \A k \in 1..Len(out) :
              /\ out[k] \notin Whitespace
              /\ out[k] = ToUpperChar(sequence[NthPosition(P, k)])
              /\ out[k] \notin {"a", "t", "g", "c", "n"}

C3_Witness ==
    /\ fn = "cleanDNASequence"
    /\ \E i, j, k \in 1..Len(sequence) :
          sequence[i] = "\t" /\ sequence[j] = "g" /\ sequence[k] = "\r"
    /\ Len(out) >= 1
    /\ Len(out) < Len(sequence)

\* C4: createFastaFromSequence(seq, id) is ">" + id + "\n" + normalize(seq),
\* one header line and one sequence line with no further line break; with the
\* id omitted the header is ">User_Sequence", and "atcg\natcg" gives
\* ">User_Sequence\nATCGATCG".
C4_CreateFastaHeaderAndSequenceLine ==
    fn = "createFastaFromSequence" =>
        LET header == <<">">> \o (IF id = NoArg THEN DefaultId ELSE id) IN
        /\ out = header \o <<"\n">> \o cleanDNASequence(sequence)
        /\ CountChar(out, "\n") = 1
        /\ Split(out, "\n")[1] = header
        /\ OnlyWhitespace(Split(out, "\n")[2]) => Split(out, "\n")[2] = <<>>
        /\ (sequence = ScenarioText /\ id = NoArg) => out = ScenarioFasta

C4_Witness ==
    /\ fn = "createFastaFromSequence"
    /\ sequence = ScenarioText
    /\ id = NoArg
    /\ out = ScenarioFasta

\* C5: for every valid s that is not empty after trimming,
\* parseFastaContent(createFastaFromSequence(cleanDNASequence(s), "X")) is a
\* list of exactly one record, with id "X" and sequence cleanDNASequence(s).
C5_RoundTripOneRecord ==
    (fn = "roundTrip" /\ validateDNASequence(sequence) /\ Trim(sequence) # <<>>) =>
        /\ Len(out) = 1
        /\ out[1].id = IdX
        /\ out[1].sequence = cleanDNASequence(sequence)
        /\ out[1].sequence # <<>>

C5_Witness ==
    /\ fn = "roundTrip"
    /\ validateDNASequence(sequence)
    /\ \E i \in 2..(Len(sequence) - 1) : sequence[i] = "\n"
    /\ Len(out) = 1
    /\ Len(out[1].sequence) >= 2

(***************************************************************************)
(* C6, C7: parseFastaContent, described line by line                       *)
(***************************************************************************)
\* the lines of a text, each with its surrounding whitespace removed
TrimmedLines(content) ==
    LET lines == Split(content, "\n") IN [i \in 1..Len(lines) |-> Trim(lines[i])]

IsHeaderLine(tl, i) == Len(tl[i]) >= 1 /\ tl[i][1] = ">"

HeaderLines(tl) == {i \in 1..Len(tl) : IsHeaderLine(tl, i)}

\* the text of header line h after its ">"
HeaderText(tl, h) == SubSeq(tl[h], 2, Len(tl[h]))

\* the line at which the record of header h ends: the next header, or the end of input
RecordEnd(tl, h) ==
    IF \E j \in HeaderLines(tl) : j > h
    THEN CHOOSE j \in HeaderLines(tl) : j > h /\ \A k \in HeaderLines(tl) : k > h => j <= k
    ELSE Len(tl) + 1

RECURSIVE ConcatLines(_, _, _)
ConcatLines(tl, from, to) ==
    IF from > to THEN <<>> ELSE tl[from] \o ConcatLines(tl, from + 1, to)

\* the sequence lines that follow header h, concatenated without separators
RecordBody(tl, h) == ConcatLines(tl, h + 1, RecordEnd(tl, h) - 1)

\* header h has both an id and a sequence
Complete(tl, h) == HeaderText(tl, h) # <<>> /\ RecordBody(tl, h) # <<>>

CompleteHeaders(tl) == {h \in HeaderLines(tl) : Complete(tl, h)}

\* C6: every record returned by parseFastaContent has a non-empty id and a
\* non-empty sequence; a header with no sequence line before the next header or
\* the end of input produces no record; the last record of the input is emitted
\* at end of input when it has a sequence (and an id).
C6_ParseEmitsOnlyCompleteRecords ==
    fn = "parseFastaContent" =>
        LET tl == TrimmedLines(sequence)
            H == HeaderLines(tl)
        IN
        /\ \A k \in 1..Len(out) : out[k].id # <<>> /\ out[k].sequence # <<>>
        /\ Len(out) = Cardinality(CompleteHeaders(tl))
        /\ Len(out) <= Cardinality({h \in H : RecordBody(tl, h) # <<>>})
        /\ \A h \in H :
              (RecordEnd(tl, h) = Len(tl) + 1 /\ Complete(tl, h)) =>
                  /\ Len(out) >= 1
                  /\ out[Len(out)] = [id |-> HeaderText(tl, h), sequence |-> RecordBody(tl, h)]

\* a header followed immediately by another header that has a sequence, at end of input
C6_Witness ==
    /\ fn = "parseFastaContent"
    /\ LET tl == TrimmedLines(sequence) IN
          /\ Len(tl) >= 3
          /\ IsHeaderLine(tl, 1) /\ HeaderText(tl, 1) # <<>>
          /\ IsHeaderLine(tl, 2)
          /\ Complete(tl, 2)
          /\ RecordEnd(tl, 2) = Len(tl) + 1
    /\ Len(out) = 1

\* C7: a line is a header iff its trimmed form starts with ">"; the id is all
\* the text after that ">"; the sequence is the concatenation, in input order
\* and without separators, of the trimmed non-empty non-header lines up to the
\* next header or end of input; a blank line between sequence lines does not end
\* the record; records are returned in the order of their headers.
C7_ParseRecordsFollowHeaders ==
    fn = "parseFastaContent" =>
        LET tl == TrimmedLines(sequence)
            C == CompleteHeaders(tl)
        IN
        /\ Len(out) = Cardinality(C)
        /\ \A k \in 1..Len(out) :
              LET h == NthPosition(C, k) IN
              /\ out[k].id = HeaderText(tl, h)
              /\ out[k].sequence = RecordBody(tl, h)

\* two records, the first with a blank line between its two sequence lines
C7_Witness ==
    /\ fn = "parseFastaContent"
    /\ LET tl == TrimmedLines(sequence) IN
          /\ Len(tl) = 4
          /\ IsHeaderLine(tl, 1)
          /\ tl[2] # <<>> /\ ~IsHeaderLine(tl, 2)
          /\ tl[3] = <<>>
          /\ tl[4] # <<>> /\ ~IsHeaderLine(tl, 4)
          /\ Len(out) = 1
          /\ out[1].sequence = tl[2] \o tl[4]
          /\ Split(sequence, "\n")[4] # tl[4]

(***************************************************************************)
(* C8..C10: the exports of ResultsPage                                     *)
(***************************************************************************)
\* "Sequence_ID,Prediction,Confidence,Length,Viral_Probability,NonViral_Probability"
HeaderRowText ==
    <<"S","e","q","u","e","n","c","e","_","I","D",",","P","r","e","d","i","c","t","i","o","n",",","C","o","n","f","i","d","e","n","c","e",",","L","e","n","g","t","h",",","V","i","r","a","l","_","P","r","o","b","a","b","i","l","i","t","y",",","N","o","n","V","i","r","a","l","_","P","r","o","b","a","b","i","l","i","t","y">>

\* the downloads that are CSV exports
CsvDownloads == {k \in 1..Len(downloads) : downloads[k].type = "text/csv"}

\* the lines of the k-th download
LinesOf(k) == Split(downloads[k].content, "\n")

IsPrefix(p, s) == Len(p) <= Len(s) /\ SubSeq(s, 1, Len(p)) = p

\* probability * 100 with two decimals, for the probabilities of the entries
ConfidenceText(p) ==
    CASE p = 87346 -> <<"8","7",".","3","5">>
      [] p = 50000 -> <<"5","0",".","0","0">>

\* how the row of an entry begins: id, prediction, confidence, length
RowStart(e) ==
    e.sequence_id \o <<",">> \o e.prediction \o <<",">> \o ConfidenceText(e.probability)
        \o <<",">> \o NumberToString(e.sequence_length) \o <<",">>

\* C8: the CSV text is the header row followed by exactly one row per entry of
\* detailed_results, in the order of detailed_results: the number of data rows
\* is the length of detailed_results and row i describes entry i.
C8_CsvOneRowPerEntryInOrder ==
    \A k \in CsvDownloads :
        LET lines == LinesOf(k)
            d == results.detailed_results
        IN
        /\ Len(lines) = 1 + Len(d)
        /\ lines[1] = HeaderRowText
        /\ \A i \in 1..Len(d) : IsPrefix(RowStart(d[i]), lines[i + 1])

C8_Witness ==
    \E k \in CsvDownloads :
        /\ Len(results.detailed_results) = 2
        /\ results.detailed_results[1].sequence_id # results.detailed_results[2].sequence_id
        /\ Len(LinesOf(k)) = 3

\* the last two columns of a row (the id may itself contain commas)
ViralColumn(line) == LET f == Split(line, ",") IN f[Len(f) - 1]
NonViralColumn(line) == LET f == Split(line, ",") IN f[Len(f)]

\* what the claim expects in a probability column
ExpectedProbabilityColumn(x) == IF x = Undefined THEN NA ELSE PercentToFixed2(x)

\* C9: in each CSV row the Viral_Probability (NonViral_Probability) column is
\* the literal N/A when the raw viral (non-viral) probability is absent, and
\* that probability times 100 fixed to 2 decimals when it is present, for every
\* present value in [0,1] including 0.
C9_ProbabilityColumnsNAOnlyWhenAbsent ==
    \A k \in CsvDownloads :
        \A i \in 1..Len(results.detailed_results) :
            LET e == results.detailed_results[i]
                line == LinesOf(k)[i + 1]
            IN
            /\ ViralColumn(line) = ExpectedProbabilityColumn(RawViral(e))
            /\ NonViralColumn(line) = ExpectedProbabilityColumn(RawNonViral(e))

\* exports of the same kind made from the same results carry the same text
SameKindSameText ==
    \A j, k \in 1..Len(downloads) :
        downloads[j].type = downloads[k].type => downloads[j].content = downloads[k].content

\* a step that exports adds one download and leaves the results alone
ExportLeavesResults ==
    downloads' # downloads =>
        /\ results' = results
        /\ predictionResults' = predictionResults
        /\ Len(downloads') = Len(downloads) + 1
        /\ SubSeq(downloads', 1, Len(downloads)) = downloads

UncaughtFrom(name) == {e \in uncaught : e.from = name}

\* both keys of the upload slot are stored and the file info is JSON
UploadSlotReadable ==
    /\ storedUploadedFile # Absent
    /\ storedFileContent # Absent
    /\ JsonParse(storedUploadedFile.text).ok

\* C11: ModelsPage.loadUploadedFile yields the upload (uploadedFile is the
\* stored file info, fileContent the stored content) only when both
\* 'uploadedFile' and 'fileContent' are present and the file info deserializes;
\* in every other case uploadedFile and fileContent stay null, and in no case
\* does an exception leave the function.
C11_LoadUploadedFileYieldsUploadOrAbsent ==
    mounted =>
        /\ UncaughtFrom("loadUploadedFile") = {}
        /\ IF UploadSlotReadable
           THEN /\ uploadedFile = FileInfoOfTree(JsonParse(storedUploadedFile.text).v)
                /\ fileContent = storedFileContent.text
           ELSE /\ uploadedFile = NoFile
                /\ fileContent = NoContent

\* the texts JSON.stringify gives for the results objects
SerializedResults == {Item(JsonStringifyResults(r)) : r \in ResultValues}

\* C12: ResultsPage.loadResults returns the stored result unchanged whenever
\* 'predictionResults' holds a serialized result, whether or not the upload
\* slot is populated; when the key is missing or its text does not deserialize
\* the results stay null, loading becomes false and no exception leaves the
\* function.
C12_LoadResultsReturnsStoredOrAbsent ==
    loading = FALSE =>
        /\ UncaughtFrom("loadResults") = {}
        /\ predictionResults \in SerializedResults =>
              /\ results # NoResults
              /\ Item(JsonStringifyResults(results)) = predictionResults
        /\ (predictionResults = Absent \/ ~JsonParse(predictionResults.text).ok) =>
              results = NoResults

\* a stored result with two entries loaded while the upload slot is empty
C12_Witness ==
    /\ loading = FALSE
    /\ storedUploadedFile = Absent
    /\ storedFileContent = Absent
    /\ predictionResults \in SerializedResults
    /\ results # NoResults
    /\ "detailed_results" \in DOMAIN results
    /\ Len(results.detailed_results) = 2

\* steps of the operations that write localStorage
SaveUploadStep == \E k \in 1..MaxReaders, outcome \in OnloadOutcomes : ReaderOnload(k, outcome)
SaveResultsStep == \E outcome \in PredictOutcomes : PredictResponse(outcome)
StorageSetStep(key) ==
    \E arg \in StorageValues, stored \in BOOLEAN : arg.key = key /\ StorageSet(arg, stored)
ClearStep == StorageClear \/ \E key \in StoreKeys : StorageRemove(key)

UploadSlotChanged ==
    storedUploadedFile' # storedUploadedFile \/ storedFileContent' # storedFileContent
ResultsSlotChanged == predictionResults' # predictionResults

\* the item stored under a key after the step
GetItemAfter(key) ==
    CASE key = "uploadedFile" -> storedUploadedFile'
      [] key = "fileContent" -> storedFileContent'
      [] key = "predictionResults" -> predictionResults'

OnlyKeyChanges(key) == \A k \in StoreKeys \ {key} : GetItemAfter(k) = GetItem(k)

\* C13 (as stated): the upload slot and the results slot are independent:
\* saving a new upload never changes the results slot, saving or clearing the
\* results never changes the upload slot, and every clear operation of the
\* store removes one slot only.
C13_SlotsIndependentOneSlotPerClear ==
    [][ /\ SaveUploadStep => ~ResultsSlotChanged
        /\ SaveResultsStep => ~UploadSlotChanged
        /\ StorageRemove("predictionResults") => ~UploadSlotChanged
        /\ ClearStep => ~(UploadSlotChanged /\ ResultsSlotChanged) ]_vars

\* C13 (amended): saving a new upload never changes the results slot and saving
\* results never changes the upload slot; storage.set(key) and
\* storage.remove(key) change the named key only, remove leaving it absent; but
\* storage.clear() removes every key of both slots at once.
C13_SlotsIndependentExceptStorageClear ==
    [][ /\ SaveUploadStep => ~ResultsSlotChanged
        /\ SaveResultsStep => ~UploadSlotChanged
        /\ \A key \in StoreKeys :
              /\ StorageSetStep(key) => OnlyKeyChanges(key)
              /\ StorageRemove(key) => OnlyKeyChanges(key) /\ GetItemAfter(key) = Absent
        /\ StorageClear => \A key \in StoreKeys : GetItemAfter(key) = Absent ]_vars

\* storage.clear() has emptied the store after ModelsPage saved results
C13_Witness ==
    /\ fn = "storage.clear"
    /\ Len(outcomes) = 1
    /\ outcomes[1].kind = "success"
    /\ \A key \in StoreKeys : GetItem(key) = Absent

\* the files the upload page can hold: chosen files and processed texts
UploadableFiles ==
    Files \cup {UserSequenceFile(Trim(text)) : text \in {x \in RawTexts : ~OnlyWhitespace(x) /\ ~HasForeignChar(x)}}

\* C14: after any sequence of proceedToModels calls the keys 'uploadedFile'
\* and 'fileContent' are both absent or both present, and when present they are
\* the file info and the content of one and the same file (each save replaces
\* the pair wholesale).
C14_UploadKeysBothOrNeither ==
    /\ (storedUploadedFile = Absent) <=> (storedFileContent = Absent)
    /\ storedUploadedFile # Absent =>
          \E f \in UploadableFiles :
              /\ storedUploadedFile = Item(JsonStringifyFileInfo(FileInfo(f)))
              /\ storedFileContent = Item(f.content)

\* the finished calls of the named service function
CallsOf(name) == {k \in 1..Len(api) : api[k].fn = name}

\* the requests for /health ModelsPage has handed to fetch
HealthRequests == {k \in 1..Len(requests) : requests[k].url = "/health"}

\* ModelsPage sends one request for /health and an unreachable service leaves
\* it 'disconnected', with no further request and no exception
ModelsPageHealthCheckOnce == mounted => Cardinality(HealthRequests) = 1

ModelsPageUnreachableDisconnected ==
    CheckBackendStatusResponse("unreachable") =>
        /\ backendStatus' = "disconnected"
        /\ requests' = requests
        /\ uncaught' = uncaught

\* a call that found the service unreachable made one request and returned
\* isRunning = false
ReturnedNotRunning(call) ==
    call.response.kind = "rejects" =>
        /\ Len(call.requests) = 1
        /\ call.ended = "returned"
        /\ call.value.isRunning = FALSE

\* a call that found the service unreachable made one request and threw
ThrewAfterOneRequest(call) ==
    call.response.kind = "rejects" =>
        /\ Len(call.requests) = 1
        /\ call.ended = "thrown"

\* C15 (as stated): a health check against an unreachable service makes a
\* single request, without retry, and reports not reachable (isRunning = false,
\* backendStatus 'disconnected') as a returned value; no exception escapes to
\* the caller. The health checks are checkBackendStatus, ApiService.healthCheck
\* and ModelsPage.checkBackendStatus.
C15_UnreachableHealthCheckReturnsNotReachable ==
    /\ [](\A k \in CallsOf("checkBackendStatus") \cup CallsOf("healthCheck") :
              ReturnedNotRunning(api[k]))
    /\ []ModelsPageHealthCheckOnce
    /\ [][ModelsPageUnreachableDisconnected]_vars

\* C15 (amended): checkBackendStatus and ModelsPage.checkBackendStatus make a
\* single request and report an unreachable service as a value (isRunning =
\* false, backendStatus 'disconnected') with no exception escaping;
\* ApiService.healthCheck makes a single request too but reports an
\* unreachable service by throwing.
C15_UnreachableHealthCheckReturnsOrThrows ==
    /\ [](\A k \in CallsOf("checkBackendStatus") : ReturnedNotRunning(api[k]))
    /\ [](\A k \in CallsOf("healthCheck") : ThrewAfterOneRequest(api[k]))
    /\ []ModelsPageHealthCheckOnce
    /\ [][ModelsPageUnreachableDisconnected]_vars

\* checkBackendStatus has returned isRunning = false for a rejected fetch and
\* ModelsPage has ended 'disconnected'
C15_Witness ==
    /\ Len(api) = 1
    /\ api[1].fn = "checkBackendStatus"
    /\ api[1].response.kind = "rejects"
    /\ api[1].ended = "returned"
    /\ mounted
    /\ healthPending = 0
    /\ backendStatus = "disconnected"

\* the names of the parts of a multipart request
PartNames(req) == {req.body[k].name : k \in 1..Len(req.body)}

\* every request for /predict handed to fetch, by ModelsPage and by ApiService
PredictRequestsSent ==
    {requests[k] : k \in {j \in 1..Len(requests) : requests[j].url = "/predict"}}
        \cup {api[k].requests[1] : k \in CallsOf("predict")}

\* C16: every predict request is a multipart request that carries the part
\* 'file' and the part 'models'; none is sent without the model-id set.
C16_PredictRequestsCarryFileAndModels ==
    \A req \in PredictRequestsSent : {"file", "models"} \subseteq PartNames(req)

\* the kind of gateway failure an answer of the service is, "none" for a result
GatewayKind(outcome) ==
    CASE outcome.kind = "unreachable" -> "NetworkUnavailable"
      [] outcome.kind = "rejected" -> "ServerRejected"
      [] outcome.kind \in {"notJson", "successNoResults"} -> "MalformedResponse"
      [] OTHER -> "none"

\* the kind of failure a notification of runPrediction tells the user
ReportedKind(n) ==
    CASE n.message = "Prediction failed. Please check the backend connection." -> "NetworkUnavailable"
      [] n.message = "Prediction failed: data.error" -> "ServerRejected"
      [] OTHER -> "none"

\* C17: every failed predict call is reported as exactly one of three kinds
\* that can be told apart (the service cannot be reached, the service rejects
\* the request, the response cannot be read as a result), and a failed call
\* never stores a result nor continues to the results.
C17_FailedPredictReportedByKind ==
    [][ \A outcome \in PredictOutcomes :
          (GatewayKind(outcome) # "none" /\ PredictResponse(outcome)) =>
              /\ notification'.type = "error"
              /\ ReportedKind(notification') = GatewayKind(outcome)
              /\ predictionResults' = predictionResults
              /\ navTimers' = navTimers ]_vars

\* the three conditions under which runPrediction sends its request
RunGuardsHold ==
    /\ uploadedFile # NoFile
    /\ fileContent # NoContent
    /\ selectedModels # {}
    /\ backendStatus = "connected"

PredictRequestSent ==
    /\ Len(requests') = Len(requests) + 1
    /\ requests'[Len(requests')].url = "/predict"

\* C18: runPrediction issues a predict request only when an upload is loaded,
\* the selected set is not empty and backendStatus is 'connected'; otherwise
\* it shows an error notification, sends no request, does not set
\* isProcessing and leaves all stored slots unchanged.
C18_RunPredictionGuards ==
    [][ /\ PredictRequestSent => RunGuardsHold
        /\ (runPrediction /\ ~RunGuardsHold) =>
              /\ notification'.type = "error"
              /\ requests' = requests
              /\ pending' = pending
              /\ isProcessing' = isProcessing
              /\ storeVars' = storeVars
              /\ predictionResults' = predictionResults ]_vars

\* a click on the run button was refused because the service is not connected
C18_Witness ==
    /\ mounted
    /\ uploadedFile # NoFile
    /\ backendStatus = "disconnected"
    /\ notification.message = "Backend not connected. Please start the Flask server."
    /\ notification.type = "error"
    /\ isProcessing = FALSE
    /\ Len(requests) = 1

\* C19: at most one predict request of a ModelsPage is in flight at any time,
\* and while it is in flight isProcessing is true.
C19_OnePredictRequestInFlight ==
    /\ pending <= 1
    /\ pending = 1 => isProcessing

\* a second request is in flight after the first one was answered
C19_Witness ==
    /\ pending = 1
    /\ Len(outcomes) = 1
    /\ outcomes[1].kind = "success"
    /\ Len(requests) = 3

FailureKinds == {"unreachable", "notJson", "rejected"}

\* C20: when a predict call fails (transport error, unparsable response or
\* success = false) an error notification is shown, isProcessing becomes
\* false, the loaded upload and the stored upload slot stay as they were, and
\* runPrediction can be run again.
C20_FailedPredictLeavesUploadRetryable ==
    [][ \A outcome \in PredictOutcomes :
          (outcome.kind \in FailureKinds /\ PredictResponse(outcome)) =>
              /\ notification'.type = "error"
              /\ isProcessing' = FALSE
              /\ uploadedFile' = uploadedFile
              /\ fileContent' = fileContent
              /\ storeVars' = storeVars
              /\ RunButtonEnabled'
              /\ RunGuardsHold' ]_vars

\* a prediction failed for an unreachable service and the retry is in flight
C20_Witness ==
    /\ Len(outcomes) = 1
    /\ outcomes[1].kind = "unreachable"
    /\ pending = 1
    /\ isProcessing
    /\ uploadedFile # NoFile

(***************************************************************************)
(* C21 .. C30                                                              *)
(***************************************************************************)
\* the files the upload page accepts in the pipeline
AcceptedInputs == {FileA}

\* something was written under a key of the upload slot
UploadSlotWritten == storedUploadedFile # Absent \/ storedFileContent # Absent

\* the models page holds the upload it read from the two keys of the slot
UploadSlotLoaded ==
    /\ mounted
    /\ TruthyItem(storedUploadedFile)
    /\ TruthyItem(storedFileContent)
    /\ uploadedFile \in {FileInfo(f) : f \in AcceptedInputs}
    /\ fileContent \in {f.content : f \in AcceptedInputs}

\* a predict request of the models page resolved with success
SomeRunSucceeded ==
    \E k \in 1..Len(outcomes) : outcomes[k].kind \in {"success", "successNoResults"}

\* C21: the stages occur in forward order, none skipped: the upload slot is
\* written only after the upload page accepted an input, a predict request is
\* issued only after the upload slot was written and loaded, and the results
\* slot is written, and the navigation to the results stage scheduled, only
\* after a predict request resolved with success.
C21_StagesInForwardOrder ==
    /\ UploadSlotWritten =>
          /\ uploadPageFile \in AcceptedInputs
          /\ storedUploadedFile \in {Item(JsonStringifyFileInfo(FileInfo(f))) : f \in AcceptedInputs}
    /\ PredictRequestsSent # {} => UploadSlotLoaded
    /\ predictionResults # Absent => SomeRunSucceeded /\ PredictRequestsSent # {}
    /\ (navTimers > 0 \/ hash = "results") => predictionResults # Absent

\* the whole pipeline was passed: a file was accepted, stored and loaded, the
\* prediction succeeded and the results stage was entered
C21_Witness ==
    /\ hash = "results"
    /\ uploadPageFile = FileA
    /\ storedFileContent = Item(FileA.content)
    /\ uploadedFile = FileInfo(FileA)
    /\ Len(outcomes) = 1
    /\ outcomes[1].kind = "success"
    /\ predictionResults = StoredResultsText(outcomes[1])

\* the accepted extensions
FastaExtensions ==
    {<<".","f","a","s","t","a">>, <<".","f","a","s">>, <<".","f","a">>, <<".","f","n","a">>, <<".","t","x","t">>}

\* the reasons validateFile has to give for a file under the default rules
ViolatedRules(file) ==
    (IF \E ext \in FastaExtensions : EndsWith(ToLowerCase(file.name), ext)
     THEN {} ELSE {"Invalid file type"})
        \cup (IF file.size > 104857600 THEN {"File too large"} ELSE {})

\* C22: a file without an accepted extension (case-insensitive) or larger
\* than the ceiling of 100 MiB (a file of exactly the ceiling passes) is
\* rejected by validateFile with one reason per violated rule, and never
\* becomes the active upload of the upload page nor is handed to a reader.
C22_RejectedFilesNeverBecomeActive ==
    /\ (fn = "validateFile" /\ sequence.file # NoFile /\ sequence.maxSize = 104857600) =>
          /\ {out.errors[k] : k \in 1..Len(out.errors)} = ViolatedRules(sequence.file)
          /\ Len(out.errors) = Cardinality(ViolatedRules(sequence.file))
          /\ out.valid <=> ViolatedRules(sequence.file) = {}
    /\ uploadPageFile # NoFile => ViolatedRules(uploadPageFile) = {}
    /\ \A k \in 1..Len(readers) : ViolatedRules(readers[k]) = {}

\* a handler of the upload page is called with an input it has to refuse
RefusesRawSequence ==
    processRawSequence /\ (OnlyWhitespace(rawSequence) \/ HasForeignChar(rawSequence))
RefusesFile ==
    \E file \in {FileA, FileBad} :
        handleFileSelect(file) /\ ~(\E ext \in FastaExtensions : EndsWith(ToLowerCase(file.name), ext))
RefusesProceed == proceedToModels /\ uploadPageFile = NoFile

\* C23: a validation error keeps the pipeline in its stage: processRawSequence
\* on a text that is empty after trimming or has invalid characters,
\* handleFileSelect on a wrong-extension file and proceedToModels without an
\* active upload only raise an error notification; the active upload, both
\* persisted slots and the current page stay as they were.
C23_ValidationErrorKeepsStage ==
    [][ (RefusesRawSequence \/ RefusesFile \/ RefusesProceed) =>
            /\ uploadNotification'.type = "error"
            /\ uploadTimers' = uploadTimers + 1
            /\ uploadPageFile' = uploadPageFile
            /\ rawSequence' = rawSequence
            /\ readers' = readers
            /\ storeVars' = storeVars
            /\ predictionResults' = predictionResults
            /\ hash' = hash ]_vars

\* a text with a foreign character was refused while a file was active
C23_Witness ==
    /\ rawSequence = <<"a","x">>
    /\ uploadNotification = Notification("Invalid DNA sequence. Only A, T, G, C, N characters allowed.", "error")
    /\ uploadPageFile = FileA
    /\ hash = "upload"

\* the completed predict requests the service answered with success = true
SuccessfulResponses ==
    {k \in 1..Len(outcomes) : outcomes[k].kind \in {"success", "successNoResults", "successQuota"}}

LatestSuccessfulResponse ==
    outcomes[CHOOSE k \in SuccessfulResponses : \A j \in SuccessfulResponses : j <= k]

\* C24: the results slot is last-write-wins: after any sequence of prediction
\* runs the key 'predictionResults' holds exactly the JSON text of the results
\* of the latest response that resolved with success (nothing before the
\* first one), also when the page was left before the response arrived.
C24_ResultsSlotHoldsLatestSuccess ==
    IF SuccessfulResponses = {}
    THEN predictionResults = Absent
    ELSE /\ "results" \in DOMAIN LatestSuccessfulResponse
         /\ predictionResults = Item(JsonStringifyResults(LatestSuccessfulResponse.results))

\* C25: after overlapping or repeated proceedToModels calls and after any
\* failed localStorage write, a stored 'uploadedFile' and a stored
\* 'fileContent' describe the same upload: the stored name and size are those
\* of the file whose text is the stored content.
C25_StoredMetaDescribesStoredContent ==
    (storedUploadedFile # Absent /\ storedFileContent # Absent) =>
        \E f \in UploadableFiles :
            LET meta == FileInfoOfTree(JsonParse(storedUploadedFile.text).v)
            IN /\ JsonParse(storedUploadedFile.text).ok
               /\ meta.name = f.name
               /\ meta.size = f.size
               /\ storedFileContent.text = f.content

\* the ids of the models marked trained
TrainedModelIds == {models[k].id : k \in {j \in 1..Len(models) : models[j].trained}}

\* C26: after any sequence of handleModelSelection calls the selected set is
\* not empty and holds only trained models; a click on an untrained model
\* leaves the selection unchanged, and a toggle that would empty the set is
\* refused and leaves the selection unchanged.
C26_SelectionNonEmptyAndTrained ==
    /\ [](selectedModels # {} /\ selectedModels \subseteq TrainedModelIds)
    /\ [][ \A modelId \in ModelIds :
             handleModelSelection(modelId) =>
                 /\ modelId \notin TrainedModelIds => selectedModels' = selectedModels
                 /\ selectedModels = {modelId} =>
                       /\ selectedModels' = selectedModels
                       /\ notification'.type = "warning" ]_vars

\* the only selected model was clicked and the toggle was refused
C26_Witness ==
    /\ mounted
    /\ notification = Notification("At least one model must be selected", "warning")
    /\ selectedModels = {RandomForest}

\* C27: every runPrediction that sets isProcessing to true sets it back to
\* false once its request resolves or rejects, whatever the response is
\* (success, failure, not parsable, transport failure); isProcessing is true
\* only while a predict request is outstanding.
C27_IsProcessingEventuallyFalse ==
    /\ [](isProcessing => pending > 0)
    /\ [][ \A outcome \in PredictOutcomes : PredictResponse(outcome) => ~isProcessing' ]_vars
    /\ (isProcessing ~> ~isProcessing)

\* a run whose response could not be parsed has ended and reset isProcessing
C27_Witness ==
    /\ Len(outcomes) = 1
    /\ outcomes[1].kind = "notJson"
    /\ PredictRequestsSent # {}
    /\ pending = 0
    /\ ~isProcessing

\* C28: once the health-check request of the models page has completed, with
\* any response or with a failure, backendStatus is 'connected' or
\* 'disconnected' and no longer 'checking'; it becomes 'connected' only for
\* an answer with status 'healthy'.
C28_HealthCheckSettlesBackendStatus ==
    /\ []((mounted /\ healthPending = 0) => backendStatus \in {"connected", "disconnected"})
    /\ [][ \A outcome \in HealthOutcomes :
             CheckBackendStatusResponse(outcome) =>
                 (backendStatus' = "connected" <=> outcome = "healthy") ]_vars

\* C29: a prediction run that does not succeed (refused by a guard, transport
\* failure, unparsable response, response with success = false) never writes,
\* clears or alters the results slot, and schedules no navigation to the
\* results stage; sending the request does not touch the slot either.
C29_FailedRunLeavesResultsSlot ==
    [][ (runPrediction \/ \E outcome \in PredictOutcomes :
                             outcome.kind \in FailureKinds /\ PredictResponse(outcome)) =>
            /\ predictionResults' = predictionResults
            /\ navTimers' = navTimers
            /\ hash' = hash ]_vars

\* results of a first run are stored, and the second run was rejected by the
\* service before the navigation of the first run fired
C29_Witness ==
    /\ Len(outcomes) = 2
    /\ outcomes[1].kind = "success"
    /\ outcomes[2].kind = "rejected"
    /\ predictionResults = StoredResultsText(outcomes[1])
    /\ navTimers = 1
    /\ hash = "models"

\* C30: on the upload page and on the models page a notification stays
\* displayed for its 5 seconds unless a newer one replaces it: the timer of an
\* earlier notification never removes a later one.  The timers of a page have
\* the same delay and fire in the order they were started, so while a timer is
\* outstanding the timer of the latest notification is, and that notification
\* has to be displayed.
C30_NotificationOutlivesEarlierTimers ==
    /\ uploadTimers > 0 => uploadNotification # NoNotification
    /\ timers > 0 => notification # NoNotification


====
